---------------------------- MODULE Spec2Model ----------------------------
(***************************************************************************)
(* Model of the automatic mesher of pyems (src/pyems/mesh.py).             *)
(*                                                                         *)
(* Numbers.  The program computes with floating-point numbers; the model   *)
(* computes with integers.  A position or a spacing is an integer number   *)
(* of length units; one unit is the precision fp_nearest rounds to.  A     *)
(* geometric-series factor is an integer number of 1/FS, so FS is the      *)
(* factor 1.  Every division rounds toward minus infinity, as the one      *)
(* rounding of the floating-point operation it models.                     *)
(***************************************************************************)
EXTENDS Integers, Sequences, FiniteSets, TLC

(***************************************************************************)
(* Arithmetic helpers.                                                     *)
(***************************************************************************)
Abs(x) == IF x < 0 THEN -x ELSE x

Min2(a, b) == IF a <= b THEN a ELSE b

Max2(a, b) == IF a >= b THEN a ELSE b

\* np.ceil(a / b) for b > 0
CeilDiv(a, b) == -((-a) \div b)

\* floor(a * b / c) for a, b >= 0 and c > 0, without forming a * b
MulDiv(a, b, c) == (a \div c) * b + ((a % c) * b) \div c

\* The factor 1 in factor units.
FS == 10000

\* Largest factor the root finder reports (4.0); larger roots are reported
\* as FMax.  The callers only compare a factor with 1 and with bounds that
\* are at most the smoothness factor, which is below FMax.
FMax == 40000

\* Saturation of a power sum, in factor units: a sum this large stands for
\* "larger than every distance of the model".
SumCap == 10000000

\* x0 of scipy.optimize.fsolve in _factor_for_num (1.5).
Seed == 15000

\* rtol of np.isclose is 1e-3 = 1 / RtolDen
RtolDen == 1000

\* np.isclose(a, b, rtol=1e-3, atol=0): |a - b| <= rtol * |b|
isclose(a, b) == Abs(a - b) <= Abs(b) \div RtolDen

(***************************************************************************)
(* pyems.fp: tolerance-aware comparison of positions.  Tol is the absolute *)
(* tolerance in length units.                                              *)
(***************************************************************************)
Tol == 3

fp_equalp(a, b) == Abs(a - b) <= Tol

fp_ltp(a, b) == a < b /\ ~fp_equalp(a, b)

fp_gtp(a, b) == a > b /\ ~fp_equalp(a, b)

fp_lep(a, b) == a < b \/ fp_equalp(a, b)

fp_gep(a, b) == a > b \/ fp_equalp(a, b)

\* Rounding to the precision of positions: a position of the model is
\* already a whole number of units.
fp_nearest(a) == a

(***************************************************************************)
(* GeometricSeriesSolver                                                   *)
(***************************************************************************)
\* n more terms of the sum: st is << P, acc >> with P the last power and
\* acc the sum so far, which saturates at SumCap.  The terms are taken in
\* their order, in two halves.
\* Python computes the arguments of a call before the call, and a statement
\* before the next one: TRUE once the value v is computed.
Computed(v) == v = v

RECURSIVE PowSumFrom(_, _, _)
PowSumFrom(F, n, st) ==
    IF st[2] >= SumCap THEN << st[1], SumCap >>
    ELSE IF n <= 0 THEN st
    ELSE IF n = 1
    THEN << MulDiv(st[1], F, FS),
            Min2(SumCap, st[2] + MulDiv(st[1], F, FS)) >>
    ELSE PowSumFrom(F, n - n \div 2, PowSumFrom(F, n \div 2, st))

\* sum_{k=1}^{n} (F/FS)^k in factor units, saturating at SumCap.
\* P is (F/FS)^(done) and acc the sum so far.
PowSum(F, n, P, acc) == PowSumFrom(F, n, << P, acc >>)[2]

\* P times n more factors F/FS, rounded at every factor and saturating at
\* SumCap.  The factors are taken in two halves.
RECURSIVE PowFrom(_, _, _)
PowFrom(F, n, P) ==
    IF P >= SumCap THEN SumCap
    ELSE IF n <= 0 THEN P
    ELSE IF n = 1 THEN Min2(SumCap, MulDiv(P, F, FS))
    ELSE PowFrom(F, n - n \div 2, PowFrom(F, n \div 2, P))

\* (F/FS)^n in factor units, saturating at SumCap.
Pow(F, n) == PowFrom(F, n, FS)

\* smaller_spacing * sum_{k=1}^{num-1} factor^k
_geom_dist(factor, num, smaller_spacing) ==
    MulDiv(PowSum(factor, num - 1, FS, 0), smaller_spacing, FS)

\* residual of the root finder
_geom_dist_zero(factor, num, smaller_spacing, dist) ==
    _geom_dist(factor, num, smaller_spacing) - dist

\* The number of halvings that bring an interval of width w to width 1.
RECURSIVE Halvings(_)
Halvings(w) == IF w <= 1 THEN 0 ELSE 1 + Halvings((w + 1) \div 2)

\* The middle of the interval iv.
Mid(iv) == (iv[1] + iv[2]) \div 2

\* n steps of the bisection of RootBetween on the interval iv, taken in
\* two halves; an interval of width 1 stays.
RECURSIVE RootSteps(_, _, _, _, _)
RootSteps(n, iv, num, s, dist) ==
    IF n <= 0 \/ iv[2] - iv[1] <= 1 THEN iv
    ELSE IF n = 1
    THEN IF _geom_dist_zero(Mid(iv), num, s, dist) >= 0
         THEN << iv[1], Mid(iv) >>
         ELSE << Mid(iv), iv[2] >>
    ELSE RootSteps(n - n \div 2, RootSteps(n \div 2, iv, num, s, dist),
                   num, s, dist)

\* Bisection: the smallest factor F in lo+1..hi with residual >= 0, given
\* residual(lo) < 0 <= residual(hi).
RootBetween(lo, hi, num, s, dist) ==
    RootSteps(Halvings(hi - lo), << lo, hi >>, num, s, dist)[2]

\* The factor next to the sign change of the residual with the smaller
\* residual.
NearestRoot(num, s, dist) ==
    LET Nearer(hi) ==
            LET rhi == _geom_dist_zero(hi, num, s, dist)
                rlo == _geom_dist_zero(hi - 1, num, s, dist)
            IN IF Computed(hi) /\ rhi <= -rlo THEN hi ELSE hi - 1
    IN Nearer(RootBetween(0, FMax, num, s, dist))

\* fsolve(_geom_dist_zero, x0=1.5): the positive root of the residual, to
\* the precision of a factor.  With num <= 1 the residual is the constant
\* -dist, there is no root and fsolve hands back its starting point.
_factor_for_num(num, smaller_spacing, dist) ==
    IF num <= 1 THEN Seed
    ELSE IF dist <= 0 THEN 0
    ELSE IF _geom_dist_zero(FMax, num, smaller_spacing, dist) <= 0 THEN FMax
    ELSE NearestRoot(num, smaller_spacing, dist)

\* Largest number of terms a series of the model is given.  The loops of
\* _geom_series and _num_for_factor stop there.
MaxNum == 60

\* n steps of the bisection of RatioRoot on the interval iv, taken in
\* two halves; an interval of width 1 stays.
RECURSIVE RatioSteps(_, _, _, _, _)
RatioSteps(n, iv, num, larger, smaller) ==
    IF n <= 0 \/ iv[2] - iv[1] <= 1 THEN iv
    ELSE IF n = 1
    THEN IF MulDiv(Pow(Mid(iv), num - 1), smaller, FS) <= larger
         THEN << Mid(iv), iv[2] >>
         ELSE << iv[1], Mid(iv) >>
    ELSE RatioSteps(n - n \div 2,
                    RatioSteps(n \div 2, iv, num, larger, smaller),
                    num, larger, smaller)

\* Bisection: the largest factor F in lo..hi-1 with
\* smaller * (F/FS)^(num-1) <= larger, given that lo satisfies it and hi
\* does not.
RatioRoot(lo, hi, num, larger, smaller) ==
    RatioSteps(Halvings(hi - lo), << lo, hi >>, num, larger, smaller)[1]

\* np.min([max_factor, np.power(ratio, 1 / (num - 1))]) with
\* ratio = larger / smaller >= 1
_factor_ubound(num, larger, smaller, max_factor) ==
    IF MulDiv(Pow(max_factor, num - 1), smaller, FS) <= larger
    THEN max_factor
    ELSE RatioRoot(FS, max_factor, num, larger, smaller)

\* The smallest m in lo..hi with (F/FS)^m >= X, and hi + 1 when there is
\* none.  The candidates are tried in their order, in two halves.
RECURSIVE CeilLog(_, _, _, _)
CeilLog(F, X, lo, hi) ==
    IF lo > hi THEN lo
    ELSE IF lo = hi THEN IF Pow(F, lo) >= X THEN lo ELSE lo + 1
    ELSE LET first == CeilLog(F, X, lo, (lo + hi) \div 2)
         IN IF first <= (lo + hi) \div 2 THEN first
            ELSE CeilLog(F, X, (lo + hi) \div 2 + 1, hi)

\* int(ceil(log(1 - ((dist / s) + 1) * (1 - factor)) / log(factor) + 1))
NumEstimate(factor, smaller_spacing, dist) ==
    LET X == FS + MulDiv(MulDiv(dist, FS, smaller_spacing) + FS,
                         factor - FS, FS)
    IN CeilLog(factor, X, 0, MaxNum - 1) + 1

\* The loop of _num_for_factor: lower num while the factor is below 1.
RECURSIVE NumLoop(_, _, _, _)
NumLoop(factor, num, smaller_spacing, dist) ==
    IF factor >= FS THEN [factor |-> factor, num |-> num, err |-> FALSE]
    ELSE IF num - 1 = 0 THEN [factor |-> factor, num |-> 0, err |-> TRUE]
    ELSE NumLoop(_factor_for_num(num - 1, smaller_spacing, dist),
                 num - 1, smaller_spacing, dist)

\* Faulty variant: the loop that keeps the factor from falling below 1 is left out.
_num_for_factor_noloop(factor, smaller_spacing, dist) ==
    LET num == NumEstimate(factor, smaller_spacing, dist) + 1
    IN [factor |-> _factor_for_num(num, smaller_spacing, dist),
        num |-> num, err |-> FALSE]

\* (factor, num) with the sum of the series equal to dist, or the
\* RuntimeError "_num_for_factor failed" (err).
_num_for_factor(factor, smaller_spacing, dist) ==
    LET From(num) == NumLoop(_factor_for_num(num, smaller_spacing, dist),
                             num, smaller_spacing, dist)
    IN From(NumEstimate(factor, smaller_spacing, dist))

\* The loop of _geom_series: raise num while the factor is not below the
\* upper bound.
RECURSIVE SeriesLoop(_, _, _, _, _, _)
SeriesLoop(factor, num, smaller_spacing, larger_spacing, dist, max_factor) ==
    IF num >= MaxNum
       \/ factor < _factor_ubound(num, larger_spacing, smaller_spacing,
                                  max_factor)
    THEN [factor |-> factor, num |-> num]
    ELSE SeriesLoop(_factor_for_num(num + 1, smaller_spacing, dist),
                    num + 1, smaller_spacing, larger_spacing, dist,
                    max_factor)

\* (factor, num) of a geometric series of sum dist with at least min_num
\* terms and a factor below the upper bound.
_geom_series(smaller_spacing, larger_spacing, dist, min_num, max_factor) ==
    LET From(num) == SeriesLoop(_factor_for_num(num, smaller_spacing, dist),
                                num, smaller_spacing, larger_spacing, dist,
                                max_factor)
    IN From(Max2(CeilDiv(dist, larger_spacing) + 1, min_num))

\* np.linspace(lower, upper, num)
linspace(lower, upper, num) ==
    IF num <= 0 THEN << >>
    ELSE IF num = 1 THEN << lower >>
    ELSE [i \in 1..num |->
            IF i = num THEN upper
            ELSE lower + ((i - 1) * (upper - lower)) \div (num - 1)]

\* np.cumsum(spacing * np.power(factor, powers))[k - 1]
CumSpacing(factor, k, spacing) == MulDiv(PowSum(factor, k, FS, 0), spacing, FS)

\* Faulty variant: the equal-spacing branch ignores the rounding up of the number
\* of cells and of the minimum number of lines.
_lines_const_factor_in_bounds_floor(lower, upper, lower_spacing, upper_spacing, min_lines, smooth) ==
    linspace(lower, upper, ((upper - lower) \div lower_spacing))

\* Lines from lower to upper: equidistant when the boundary spacings are
\* close, else one geometric run that starts at the end with the smaller
\* spacing.
_lines_const_factor_in_bounds(lower, upper, lower_spacing, upper_spacing, min_lines, smooth) ==
    IF isclose(lower_spacing, upper_spacing)
    THEN linspace(lower, upper,
                  Max2(CeilDiv(upper - lower, lower_spacing) + 1, min_lines))
    ELSE LET Run(gs) ==
                 IF lower_spacing < upper_spacing
                 THEN [i \in 1..gs.num |->
                         IF i = gs.num THEN upper
                         ELSE IF i = 1 THEN lower
                         ELSE lower + CumSpacing(gs.factor, i - 1,
                                                 lower_spacing)]
                 ELSE [i \in 1..gs.num |->
                         IF i = gs.num THEN upper
                         ELSE upper - CumSpacing(gs.factor, gs.num - i,
                                                 upper_spacing)]
         IN Run(_geom_series(Min2(lower_spacing, upper_spacing),
                             Max2(lower_spacing, upper_spacing),
                             upper - lower, min_lines, smooth))

\* spacing * factor ** (num - 1) after _num_for_factor(max_factor, ...)
_spacing_at_dist(spacing, dist, max_factor) ==
    LET Last(nf) ==
            CASE Computed(nf) ->
                MulDiv(Pow(nf.factor, nf.num - 1), spacing, FS)
    IN Last(_num_for_factor(max_factor, spacing, dist))

\* residual of the root finder of _dist_for_max_spacings
_spacings_at_dist_zero(dist, lower_spacing, upper_spacing, total_dist, max_factor) ==
    _spacing_at_dist(upper_spacing, total_dist - dist, max_factor)
    - _spacing_at_dist(lower_spacing, dist, max_factor)

\* n steps of the bisection of MidBetween on the interval iv, taken in
\* two halves; an interval of width 1 stays.
RECURSIVE MidSteps(_, _, _, _, _, _)
MidSteps(n, iv, lower_spacing, upper_spacing, total_dist, max_factor) ==
    IF n <= 0 \/ iv[2] - iv[1] <= 1 THEN iv
    ELSE IF n = 1
    THEN IF _spacings_at_dist_zero(Mid(iv), lower_spacing, upper_spacing,
                                   total_dist, max_factor) >= 0
         THEN << Mid(iv), iv[2] >>
         ELSE << iv[1], Mid(iv) >>
    ELSE MidSteps(n - n \div 2,
                  MidSteps(n \div 2, iv, lower_spacing, upper_spacing,
                           total_dist, max_factor),
                  lower_spacing, upper_spacing, total_dist, max_factor)

\* Bisection: a distance in lo..hi next to the sign change of the residual,
\* which is >= 0 at lo and < 0 at hi.
MidBetween(lo, hi, lower_spacing, upper_spacing, total_dist, max_factor) ==
    MidSteps(Halvings(hi - lo), << lo, hi >>, lower_spacing, upper_spacing,
             total_dist, max_factor)[1]

\* fsolve(_spacings_at_dist_zero, x0=dist / 2): the distance from the lower
\* bound at which the spacings grown from both ends meet.
_dist_for_max_spacings(lower_spacing, upper_spacing, dist, max_factor) ==
    MidBetween(0, dist, lower_spacing, upper_spacing, dist, max_factor)

(***************************************************************************)
(* Lists of positions.                                                     *)
(***************************************************************************)
\* None of Python, for a position or an index.
None == -1000000

Elems(lst) == {lst[i] : i \in 1..Len(lst)}

\* lst[from:to] of Python for 0 <= from: the elements with 0-based index
\* from .. to-1.
Slice(lst, from, to) ==
    IF to <= from THEN << >>
    ELSE SubSeq(lst, from + 1, Min2(to, Len(lst)))

\* del lst[from:to] of Python for 0 <= from
DelSlice(lst, from, to) ==
    IF to <= from THEN lst
    ELSE SubSeq(lst, 1, Min2(from, Len(lst)))
         \o SubSeq(lst, Min2(to, Len(lst)) + 1, Len(lst))

\* bisect_left(lst, pos): number of elements below pos
bisect_left(lst, pos) == Cardinality({i \in 1..Len(lst) : lst[i] < pos})

\* bisect_right(lst, pos): number of elements at or below pos
bisect_right(lst, pos) == Cardinality({i \in 1..Len(lst) : lst[i] <= pos})

\* insort_left(lst, pos)
insort_left(lst, pos) ==
    LET k == bisect_left(lst, pos)
    IN SubSeq(lst, 1, k) \o << pos >> \o SubSeq(lst, k + 1, Len(lst))

\* insort_left of the lines lo..hi of lines, in their order: the range is
\* cut in two, and the second half is inserted in the list the first half
\* leaves, which holds a line at least.
RECURSIVE InsortAll(_, _, _, _)
InsortAll(lst, lines, lo, hi) ==
    IF lo > hi THEN lst
    ELSE IF lo = hi THEN insort_left(lst, lines[lo])
    ELSE LET first == InsortAll(lst, lines, lo, (lo + hi) \div 2)
         IN IF first = << >> THEN first
            ELSE InsortAll(first, lines, (lo + hi) \div 2 + 1, hi)

\* sorted(lst)
RECURSIVE SortedFrom(_, _, _)
SortedFrom(lst, i, acc) ==
    IF i > Len(lst) THEN acc
    ELSE SortedFrom(lst, i + 1,
                    LET k == bisect_right(acc, lst[i])
                    IN SubSeq(acc, 1, k) \o << lst[i] >>
                       \o SubSeq(acc, k + 1, Len(acc)))

sorted(lst) == SortedFrom(lst, 1, << >>)

\* The loop of _remove_dups over the elements lo..hi of lst, entered with
\* new_lst.  The passes are taken in the order of the list: the range is
\* cut in two, and the second half is entered with the list the first half
\* leaves, which holds an element at least.
RECURSIVE RemoveDupsFrom(_, _, _, _, _)
RemoveDupsFrom(lst, fixed, lo, hi, new_lst) ==
    IF lo > hi THEN new_lst
    ELSE IF lo < hi
    THEN LET first == RemoveDupsFrom(lst, fixed, lo, (lo + hi) \div 2,
                                     new_lst)
         IN IF first = << >> THEN first
            ELSE RemoveDupsFrom(lst, fixed, (lo + hi) \div 2 + 1, hi, first)
    ELSE LET elt == lst[lo]
             last == new_lst[Len(new_lst)]
         IN IF new_lst = << >> THEN << elt >>
            ELSE IF elt = last THEN new_lst
            ELSE IF fp_equalp(elt, last) /\ elt \notin fixed THEN new_lst
            ELSE IF fp_equalp(elt, last)
            THEN Append(SubSeq(new_lst, 1, Len(new_lst) - 1), elt)
            ELSE Append(new_lst, elt)

\* Remove the duplicates of a sorted list; fixed is the set of positions
\* that must stay.
_remove_dups(lst, fixed) == RemoveDupsFrom(lst, fixed, 1, Len(lst), << >>)

(***************************************************************************)
(* Queries on the sorted line list ml of one dimension.  An index is the   *)
(* 0-based index of Python; a result is << index, position >>.             *)
(***************************************************************************)
\* 0 <= index < len(mesh_lines[dim])
_mesh_valid_index(ml, index) == index >= 0 /\ index < Len(ml)

nearest_mesh_line(ml, pos) ==
    LET bisect_pos == bisect_left(ml, pos)
    IN IF ml = << >> THEN << None, None >>
       ELSE IF bisect_pos = 0 THEN << 0, ml[1] >>
       ELSE IF bisect_pos = Len(ml) THEN << bisect_pos - 1, ml[bisect_pos] >>
       ELSE IF pos - ml[bisect_pos] < ml[bisect_pos + 1] - pos
            THEN << bisect_pos - 1, ml[bisect_pos] >>
            ELSE << bisect_pos, ml[bisect_pos + 1] >>

\* The nearest line below pos, or << None, None >>.
_line_below(ml, pos) ==
    LET Below(near) ==
            LET eq == fp_equalp(near[2], pos)
                idx1 == IF eq THEN near[1] - 1 ELSE near[1]
                act1 == IF eq /\ _mesh_valid_index(ml, idx1)
                        THEN ml[idx1 + 1] ELSE near[2]
            IN IF near[2] = None THEN << None, None >>
               ELSE IF fp_ltp(act1, pos) THEN << idx1, act1 >>
               ELSE IF _mesh_valid_index(ml, idx1 - 1)
                    THEN << idx1 - 1, ml[idx1] >>
                    ELSE << None, None >>
    IN Below(nearest_mesh_line(ml, pos))

\* The nearest line at or below pos, or << None, None >>.
_line_below_inc(ml, pos) ==
    LET BelowInc(near) ==
            IF near[2] = None THEN << None, None >>
            ELSE IF fp_lep(near[2], pos) THEN near
            ELSE IF _mesh_valid_index(ml, near[1] - 1)
                 THEN << near[1] - 1, ml[near[1]] >>
                 ELSE << None, None >>
    IN BelowInc(nearest_mesh_line(ml, pos))

\* The nearest line above pos, or << None, None >>.
_line_above(ml, pos) ==
    LET Above(near) ==
            LET eq == fp_equalp(near[2], pos)
                idx1 == IF eq THEN near[1] + 1 ELSE near[1]
                act1 == IF eq /\ _mesh_valid_index(ml, idx1)
                        THEN ml[idx1 + 1] ELSE near[2]
            IN IF near[2] = None THEN << None, None >>
               ELSE IF fp_gtp(act1, pos) THEN << idx1, act1 >>
               ELSE IF _mesh_valid_index(ml, idx1 + 1)
                    THEN << idx1 + 1, ml[idx1 + 2] >>
                    ELSE << None, None >>
    IN Above(nearest_mesh_line(ml, pos))

\* The nearest line at or above pos, or << None, None >>.
_line_above_inc(ml, pos) ==
    LET AboveInc(near) ==
            IF near[2] = None THEN << None, None >>
            ELSE IF fp_gep(near[2], pos) THEN near
            ELSE IF _mesh_valid_index(ml, near[1] + 1)
                 THEN << near[1] + 1, ml[near[1] + 2] >>
                 ELSE << None, None >>
    IN AboveInc(nearest_mesh_line(ml, pos))

\* The lines of ml left by _clear_mesh_in_bounds(lower, upper, dim); both
\* indices exist in every call the model makes.
_clear_mesh_in_bounds(ml, lower, upper) ==
    DelSlice(ml, _line_above_inc(ml, lower)[1],
             _line_below_inc(ml, upper)[1] + 1)

\* Faulty variant: the lines are inserted and the duplicates stay.
_add_lines_to_mesh_nodedup(ml, lines, fixed) ==
    InsortAll(ml, lines, 1, Len(lines))

\* The lines of ml after _add_lines_to_mesh(lines, dim): each line is
\* inserted in order, then duplicates are removed.
_add_lines_to_mesh(ml, lines, fixed) ==
    _remove_dups(InsortAll(ml, lines, 1, Len(lines)), fixed)

(***************************************************************************)
(* The state of a Mesh and of the collaborators it writes to.              *)
(***************************************************************************)
Dims == 0..2

VARIABLES
    prims,            \* sim.csx.GetAllPrimitives(): a sequence of primitives
    cfg,              \* the arguments of Mesh.__init__ and the PML cell counts
    mesh_lines,       \* self.mesh_lines
    fixed_lines,      \* self.fixed_lines
    metal_bounds,     \* self.metal_bounds
    ranges_meshed,    \* self.ranges_meshed
    sim_bounds,       \* self.sim_bounds
    bounded_types,    \* self.bounded_types
    size_ordered_bounded_types,
    grid,             \* the lines of self.mesh, the CSXCAD grid
    calls,            \* what was called on the collaborators, in order
    pc,               \* the position of the running operation
    err,              \* the exception the last operation raised, or "none"
    hist,             \* bookkeeping of the run, read by the properties only
    call,             \* the last call of a function of the module
    ret,              \* what that call returned
    unique_index,     \* cls.unique_index of Structure and its subclasses
    structures        \* the Structure objects made, in order

vars == << prims, cfg, mesh_lines, fixed_lines, metal_bounds, ranges_meshed,
           sim_bounds, bounded_types, size_ordered_bounded_types, grid,
           calls, pc, err, hist, call, ret, unique_index, structures >>

(***************************************************************************)
(* Primitives.  A primitive is [b |-> its bounds per dimension as          *)
(* << lower, upper >>, ty |-> the type string of its property].            *)
(***************************************************************************)
_prim_metalp(prim) ==
    prim.ty = "Metal" \/ prim.ty = "ConductingSheet"
    \/ prim.ty = "LumpedElement"

_prim_materialp(prim) == prim.ty = "Material"

_physical_prims(ps) ==
    SelectSeq(ps, LAMBDA prim : _prim_metalp(prim) \/ _prim_materialp(prim))

_float_inside(val, lower, upper) == val >= lower /\ val <= upper

\* np.inf as the smallest size seen so far
Inf == 100000000

\* The loop of _type_at_pos from primitive i on.
RECURSIVE TypeAtPosFrom(_, _, _, _, _, _)
TypeAtPosFrom(ps, dim, pos, i, smallest_dim, current_type) ==
    IF i > Len(ps) THEN current_type
    ELSE LET b == ps[i].b[dim]
             dim_size == b[2] - b[1]
         IN IF ~_float_inside(pos, b[1], b[2])
            THEN TypeAtPosFrom(ps, dim, pos, i + 1, smallest_dim,
                               current_type)
            ELSE IF isclose(dim_size, smallest_dim)
            THEN IF _prim_metalp(ps[i])
                 THEN TypeAtPosFrom(ps, dim, pos, i + 1, dim_size, "metal")
                 ELSE TypeAtPosFrom(ps, dim, pos, i + 1, smallest_dim,
                                    current_type)
            ELSE IF dim_size < smallest_dim
            THEN TypeAtPosFrom(ps, dim, pos, i + 1, dim_size,
                     IF _prim_metalp(ps[i]) THEN "metal" ELSE "nonmetal")
            ELSE TypeAtPosFrom(ps, dim, pos, i + 1, smallest_dim,
                               current_type)

\* The type of the primitive of smallest size at pos; "None" without one.
_type_at_pos(ps, dim, pos) == TypeAtPosFrom(ps, dim, pos, 1, Inf, "None")

\* self.fixed_lines[dim] after the iterations of _set_fixed_lines for the
\* primitives from i on.
RECURSIVE SetFixedFrom(_, _, _, _)
SetFixedFrom(fl, ps, dim, i) ==
    IF i > Len(ps) THEN fl
    ELSE LET b == ps[i].b[dim]
             added == IF fp_equalp(b[1], b[2])
                      THEN sorted(Append(fl, fp_nearest(b[1])))
                      ELSE fl
         IN SetFixedFrom(_remove_dups(sorted(added), {}), ps, dim, i + 1)

_set_fixed_lines(fl, ps) == [dim \in Dims |-> SetFixedFrom(fl[dim], ps, dim, 1)]

RECURSIVE PrimBounds(_, _, _)
PrimBounds(ps, dim, i) ==
    IF i > Len(ps) THEN << >>
    ELSE << ps[i].b[dim][1], ps[i].b[dim][2] >> \o PrimBounds(ps, dim, i + 1)

\* The sorted boundary positions per dimension, without duplicates.
_bounds_from_prims(ps, fixed) ==
    [dim \in Dims |->
        _remove_dups(sorted(PrimBounds(ps, dim, 1)), Elems(fixed[dim]))]

BoundedType(prop_type, lower_bound, upper_bound) ==
    [prop_type |-> prop_type, lower_bound |-> lower_bound,
     upper_bound |-> upper_bound]

size(btype) == btype.upper_bound - btype.lower_bound

\* np.average([lower, upper])
average(lower, upper) == (lower + upper) \div 2

get_midpoint(btype) == average(btype.lower_bound, btype.upper_bound)

\* The loop of _bounded_types over the bounds of one dimension from i on.
RECURSIVE BoundedTypesFrom(_, _, _, _, _)
BoundedTypesFrom(dim_bounds, ps, fixed, dim, i) ==
    IF i > Len(dim_bounds) THEN << >>
    ELSE LET bound == dim_bounds[i]
             between ==
                 IF i > 1
                 THEN << BoundedType(
                            _type_at_pos(ps, dim,
                                average(dim_bounds[i - 1], bound)),
                            dim_bounds[i - 1], bound) >>
                 ELSE << >>
             at == IF bound \in fixed
                   THEN << BoundedType(_type_at_pos(ps, dim, bound),
                                       bound, bound) >>
                   ELSE << >>
         IN between \o at \o BoundedTypesFrom(dim_bounds, ps, fixed, dim, i + 1)

_bounded_types(bounds, ps, fixed) ==
    [dim \in Dims |->
        BoundedTypesFrom(bounds[dim], ps, Elems(fixed[dim]), dim, 1)]

\* One dimension of _set_expanded_bounds with simulation_bounds set; the
\* ValueError is reported by the caller.
ExpandAbsolute(btypes, bounds) ==
    LET existing_lower == btypes[1].lower_bound
        existing_upper == btypes[Len(btypes)].upper_bound
        below == IF ~fp_equalp(bounds[1], existing_lower)
                 THEN << BoundedType("air", bounds[1], existing_lower) >>
                 ELSE << >>
        above == IF ~fp_equalp(bounds[2], existing_upper)
                 THEN << BoundedType("air", existing_upper, bounds[2]) >>
                 ELSE << >>
    IN below \o btypes \o above

\* One dimension of _set_expanded_bounds with expand_bounds.
ExpandCells(btypes, expand, nonmetal_res) ==
    LET existing_lower == btypes[1].lower_bound
        existing_upper == btypes[Len(btypes)].upper_bound
        below == IF expand[1] # 0
                 THEN << BoundedType("air",
                            existing_lower - nonmetal_res * expand[1],
                            existing_lower) >>
                 ELSE << >>
        above == IF expand[2] # 0
                 THEN << BoundedType("air", existing_upper,
                            existing_upper + nonmetal_res * expand[2]) >>
                 ELSE << >>
    IN below \o btypes \o above

\* Faulty variant: only the upper bound is compared with the structure.
BoundsTooNarrowUpper(btypes, bounds) ==
    fp_ltp(bounds[2], btypes[Len(btypes)].upper_bound)

\* The requested simulation bounds of a dimension would ignore part of a
\* physical structure.
BoundsTooNarrow(btypes, bounds) ==
    fp_gtp(bounds[1], btypes[1].lower_bound)
    \/ fp_ltp(bounds[2], btypes[Len(btypes)].upper_bound)

\* Faulty variant: the air intervals are added next to the outermost boundary with a
\* gap of one cell.
_set_expanded_bounds_gap(btypes_all, c) ==
    [dim \in Dims |->
        LET bt == btypes_all[dim]
        IN << BoundedType("air",
                 bt[1].lower_bound - 2 * c.nonmetal_res,
                 bt[1].lower_bound - c.nonmetal_res) >> \o bt]

\* The bounded types of every dimension after _set_expanded_bounds; the
\* caller raises IndexError for a dimension without bounded types and
\* ValueError for bounds that are too narrow.
_set_expanded_bounds(btypes_all, c) ==
    [dim \in Dims |->
        IF c.simulation_bounds # << >>
        THEN ExpandAbsolute(btypes_all[dim], c.simulation_bounds[dim + 1])
        ELSE ExpandCells(btypes_all[dim], c.expand_bounds[dim + 1],
                         c.nonmetal_res)]

\* The exception _set_expanded_bounds raises on the bounded types, "none"
\* without one.
ExpandError(btypes_all, c) ==
    IF c.simulation_bounds # << >>
    THEN IF btypes_all[0] = << >> THEN "IndexError"
         ELSE IF BoundsTooNarrow(btypes_all[0], c.simulation_bounds[1])
         THEN "ValueError"
         ELSE IF btypes_all[1] = << >> THEN "IndexError"
         ELSE IF BoundsTooNarrow(btypes_all[1], c.simulation_bounds[2])
         THEN "ValueError"
         ELSE IF btypes_all[2] = << >> THEN "IndexError"
         ELSE IF BoundsTooNarrow(btypes_all[2], c.simulation_bounds[3])
         THEN "ValueError"
         ELSE "none"
    ELSE IF \E dim \in Dims : btypes_all[dim] = << >> THEN "IndexError"
         ELSE "none"

\* self.metal_bounds[dim] after the loop of _set_metal_bounds from the
\* bounded type i on.
RECURSIVE MetalBoundsFrom(_, _, _)
MetalBoundsFrom(mb, btypes, i) ==
    IF i > Len(btypes) THEN mb
    ELSE LET bt == btypes[i]
         IN IF bt.prop_type = "metal"
               /\ ~fp_equalp(bt.lower_bound, bt.upper_bound)
            THEN MetalBoundsFrom(
                     insort_left(insort_left(mb, bt.lower_bound),
                                 bt.upper_bound), btypes, i + 1)
            ELSE MetalBoundsFrom(mb, btypes, i + 1)

_set_metal_bounds(mb, btypes_all, fixed) ==
    [dim \in Dims |->
        _remove_dups(MetalBoundsFrom(mb[dim], btypes_all[dim], 1),
                     Elems(fixed[dim]))]

\* sorted(btype_list, key=size): a stable insertion sort.
RECURSIVE SortBySizeFrom(_, _, _)
SortBySizeFrom(btypes, i, acc) ==
    IF i > Len(btypes) THEN acc
    ELSE LET k == Cardinality({j \in 1..Len(acc) :
                                  size(acc[j]) <= size(btypes[i])})
         IN SortBySizeFrom(btypes, i + 1,
                SubSeq(acc, 1, k) \o << btypes[i] >>
                \o SubSeq(acc, k + 1, Len(acc)))

_sort_bounded_types(btypes_all) ==
    [dim \in Dims |-> SortBySizeFrom(btypes_all[dim], 1, << >>)]

(***************************************************************************)
(* LineGenerator and MetalAdjacencyPolicy.  These read the state of the    *)
(* running build.                                                          *)
(***************************************************************************)
\* Truth value of a position in a condition of Python: None and 0.0 are
\* false.
Truthy(x) == x # None /\ x # 0

_pos_in_bounds(pos, lower, upper) == fp_gep(pos, lower) /\ fp_lep(pos, upper)

_is_fixed_line(dim, pos) == pos \in Elems(fixed_lines[dim])

_is_metal_bound(dim, pos) == pos \in Elems(metal_bounds[dim])

\* A position has already been meshed.
_pos_meshed(dim, pos) ==
    \E i \in 1..Len(ranges_meshed[dim]) :
        _pos_in_bounds(pos, ranges_meshed[dim][i][1], ranges_meshed[dim][i][2])

\* The first index of a set of indices of bounded types, 0 for the empty
\* set: the bounded type a loop with a break stops at.
FirstBtype(hits) ==
    IF hits = {} THEN 0
    ELSE CHOOSE i \in hits : \A j \in hits : i <= j

_type_above(dim, upper) ==
    LET bts == bounded_types[dim]
        i == FirstBtype({k \in 1..Len(bts) : bts[k].lower_bound = upper})
    IN IF i = 0 THEN "None" ELSE bts[i].prop_type

_type_above_meshed(dim, upper) ==
    LET bts == bounded_types[dim]
        i == FirstBtype({k \in 1..Len(bts) :
                            bts[k].lower_bound = upper /\ size(bts[k]) # 0})
    IN i # 0 /\ _pos_meshed(dim, get_midpoint(bts[i]))

_type_below(dim, lower) ==
    LET bts == bounded_types[dim]
        i == FirstBtype({k \in 1..Len(bts) : bts[k].upper_bound = lower})
    IN IF i = 0 THEN "None" ELSE bts[i].prop_type

_type_below_meshed(dim, lower) ==
    LET bts == bounded_types[dim]
        i == FirstBtype({k \in 1..Len(bts) :
                            bts[k].upper_bound = lower /\ size(bts[k]) # 0})
    IN i # 0 /\ _pos_meshed(dim, get_midpoint(bts[i]))

_min_spacing(dist) == dist \div (cfg.min_lines - 1)

\* Faulty variant: the distance to the line below is taken with the factor
\* 1 on every boundary.
_lower_spacing_plain(dim, lower, line_below, dist, is_metal) ==
    LET res == IF is_metal THEN cfg.metal_res ELSE cfg.nonmetal_res
        lower_spacing == Min2(res, _min_spacing(dist))
    IN IF Truthy(line_below) /\ _type_below_meshed(dim, lower)
       THEN Min2(lower_spacing, lower - line_below)
       ELSE lower_spacing

\* Spacing at the lower boundary of a bounded type.
_lower_spacing(dim, lower, line_below, dist, is_metal) ==
    LET res == IF is_metal THEN cfg.metal_res ELSE cfg.nonmetal_res
        lower_spacing == Min2(res, _min_spacing(dist))
        gap == lower - line_below
        spacing ==
            IF _is_metal_bound(dim, lower) /\ ~_is_fixed_line(dim, lower)
            THEN IF _type_below(dim, lower) = "nonmetal"
                 THEN (3 * gap) \div 2
                 ELSE 3 * gap
            ELSE gap
    IN IF Truthy(line_below) /\ _type_below_meshed(dim, lower)
       THEN Min2(lower_spacing, spacing)
       ELSE lower_spacing

\* Spacing at the upper boundary of a bounded type.
_upper_spacing(dim, upper, line_above, dist, is_metal) ==
    LET res == IF is_metal THEN cfg.metal_res ELSE cfg.nonmetal_res
        upper_spacing == Min2(res, _min_spacing(dist))
        gap == line_above - upper
        spacing ==
            IF _is_metal_bound(dim, upper) /\ ~_is_fixed_line(dim, upper)
            THEN IF _type_above(dim, upper) = "nonmetal"
                 THEN (3 * gap) \div 2
                 ELSE 3 * gap
            ELSE gap
    IN IF Truthy(line_above) /\ _type_above_meshed(dim, upper)
       THEN Min2(upper_spacing, spacing)
       ELSE upper_spacing

\* The lines within [lower, upper] for the boundary spacings.
_gen_lines_in_bounds(lower, upper, lower_spacing, upper_spacing, max_spacing, dim) ==
    LET dist == upper - lower
        smooth == cfg.smooth[dim + 1]
        smaller_spacing == Min2(lower_spacing, upper_spacing)
        larger_spacing == Max2(lower_spacing, upper_spacing)
        \* The two runs that meet at midpt, lo and up being the series
        \* grown from the lower and from the upper bound.
        Joined(lower_lines, upper_lines) ==
            CASE Computed(<< lower_lines, upper_lines >>) ->
                _remove_dups(lower_lines \o upper_lines,
                             Elems(fixed_lines[dim]))
        Halves(midpt, lo, up, mid_spacing, pad) ==
            CASE Computed(<< mid_spacing, pad >>) ->
                Joined(
                    _lines_const_factor_in_bounds(lower, midpt,
                        lower_spacing, mid_spacing, lo.num + pad, smooth),
                    _lines_const_factor_in_bounds(midpt, upper, mid_spacing,
                        upper_spacing, up.num + pad, smooth))
        Meet(midpt, lo, up) ==
            CASE Computed(<< lo, up >>) ->
                Halves(midpt, lo, up,
                    Min2(max_spacing,
                         Min2(MulDiv(Pow(lo.factor, lo.num), lower_spacing,
                                     FS),
                              MulDiv(Pow(up.factor, up.num), upper_spacing,
                                     FS))),
                    IF lo.num + up.num < cfg.min_lines
                    THEN CeilDiv(cfg.min_lines - lo.num - up.num, 2) ELSE 0)
        Split(midpt) ==
            CASE Computed(midpt) ->
                Meet(midpt,
                     _num_for_factor(smooth, lower_spacing, midpt - lower),
                     _num_for_factor(smooth, upper_spacing, upper - midpt))
    IN IF dist < cfg.min_lines * larger_spacing
          \/ _spacing_at_dist(smaller_spacing, dist, smooth) < larger_spacing
       THEN _lines_const_factor_in_bounds(lower, upper, lower_spacing,
                upper_spacing, cfg.min_lines, smooth)
       ELSE Split(lower + _dist_for_max_spacings(lower_spacing,
                              upper_spacing, dist, smooth))

\* The bounds of a metal region moved inside the metal by the thirds rule,
\* from the lines generated for the whole region.
MetalShift(dim, lower, upper, lines) ==
    LET first_spacing == lines[2] - lines[1]
        last_spacing == lines[Len(lines)] - lines[Len(lines) - 1]
        lower2 ==
            IF ~fp_equalp(lower, sim_bounds[dim][1])
               /\ ~_is_fixed_line(dim, lower)
            THEN IF _pos_meshed(dim, lower)
                    /\ _type_below(dim, lower) = "metal"
                 THEN lower + (2 * first_spacing) \div 3
                 ELSE lower + first_spacing \div 3
            ELSE lower
        upper2 ==
            IF ~fp_equalp(upper, sim_bounds[dim][2])
               /\ ~_is_fixed_line(dim, upper)
            THEN IF _pos_meshed(dim, upper)
                    /\ _type_above(dim, upper) = "metal"
                 THEN upper - (2 * last_spacing) \div 3
                 ELSE upper - last_spacing \div 3
            ELSE upper
    IN << lower2, upper2 >>

\* Faulty variant: next to a metal boundary the bound is moved by one third of the
\* spacing, as inside a metal.
NonmetalShiftThird(dim, lower, upper, lines) ==
    LET first_spacing == lines[2] - lines[1]
        last_spacing == lines[Len(lines)] - lines[Len(lines) - 1]
    IN << IF _is_metal_bound(dim, lower)
          THEN lower + Min2(first_spacing, cfg.metal_res) \div 3
          ELSE lower,
          IF _is_metal_bound(dim, upper)
          THEN upper - Min2(last_spacing, cfg.metal_res) \div 3
          ELSE upper >>

\* The bounds of a nonmetal region moved away from a metal boundary.
NonmetalShift(dim, lower, upper, lines) ==
    LET first_spacing == lines[2] - lines[1]
        last_spacing == lines[Len(lines)] - lines[Len(lines) - 1]
    IN << IF _is_metal_bound(dim, lower)
          THEN lower + (2 * Min2(first_spacing, cfg.metal_res)) \div 3
          ELSE lower,
          IF _is_metal_bound(dim, upper)
          THEN upper - (2 * Min2(last_spacing, cfg.metal_res)) \div 3
          ELSE upper >>

\* The lines _gen_mesh_in_bounds adds to the mesh for [lower, upper].
GenLines(dim, lower, upper, line_below, line_above, is_metal) ==
    LET dist == upper - lower
        max_spacing == IF is_metal THEN cfg.metal_res ELSE cfg.nonmetal_res
        \* The second pass, within the bounds the thirds rule has moved.
        Again(moved, lower_spacing, upper_spacing) ==
            CASE Computed(moved) ->
                _gen_lines_in_bounds(moved[1], moved[2], lower_spacing,
                                     upper_spacing, max_spacing, dim)
        \* lines are the lines of the first pass.
        Adjust(lines, lower_spacing, upper_spacing) ==
            IF Computed(lines)
               /\ (\/ is_metal
                   \/ _is_metal_bound(dim, lower)
                   \/ _is_metal_bound(dim, upper))
            THEN Again(IF is_metal THEN MetalShift(dim, lower, upper, lines)
                       ELSE NonmetalShift(dim, lower, upper, lines),
                       lower_spacing, upper_spacing)
            ELSE lines
        First(lower_spacing, upper_spacing) ==
            CASE Computed(<< lower_spacing, upper_spacing >>) ->
                Adjust(_gen_lines_in_bounds(lower, upper, lower_spacing,
                                            upper_spacing, max_spacing, dim),
                       lower_spacing, upper_spacing)
    IN IF lower = upper THEN << lower >>
       ELSE First(_lower_spacing(dim, lower, line_below, dist, is_metal),
                  _upper_spacing(dim, upper, line_above, dist, is_metal))

\* self.mesh_lines[dim] after _gen_mesh_in_bounds for a bounded type.
_gen_mesh_in_bounds(dim, btype) ==
    LET Added(lines) ==
            CASE Computed(lines) ->
                _add_lines_to_mesh(mesh_lines[dim], lines,
                                   Elems(fixed_lines[dim]))
    IN Added(GenLines(dim, btype.lower_bound, btype.upper_bound,
                      _line_below(mesh_lines[dim], btype.lower_bound)[2],
                      _line_above(mesh_lines[dim], btype.upper_bound)[2],
                      btype.prop_type = "metal"))

(***************************************************************************)
(* Boundary trimming.                                                      *)
(***************************************************************************)
\* Positions of the bounded types of a dimension that are not air.
NonAir(dim) ==
    {i \in 1..Len(bounded_types[dim]) :
        bounded_types[dim][i].prop_type # "air"}

\* None when every bounded type is air.
_lowest_nonair_pos(dim) ==
    IF NonAir(dim) = {} THEN None
    ELSE LET i == CHOOSE i \in NonAir(dim) : \A j \in NonAir(dim) :
                      bounded_types[dim][i].lower_bound
                          <= bounded_types[dim][j].lower_bound
         IN bounded_types[dim][i].lower_bound

_highest_nonair_pos(dim) ==
    IF NonAir(dim) = {} THEN None
    ELSE LET i == CHOOSE i \in NonAir(dim) : \A j \in NonAir(dim) :
                      bounded_types[dim][i].upper_bound
                          >= bounded_types[dim][j].upper_bound
         IN bounded_types[dim][i].upper_bound

\* The lines of a dimension after the lower side of _trim_air_mesh.
TrimLower(ml, dim) ==
    LET lower_pml_cells == cfg.expand_bounds[dim + 1][1]
        mesh_idx == _line_below(ml, _lowest_nonair_pos(dim))[1]
    IN IF lower_pml_cells > 0 /\ mesh_idx > lower_pml_cells
       THEN DelSlice(ml, 0, mesh_idx - lower_pml_cells)
       ELSE ml

\* The lines of a dimension after the upper side of _trim_air_mesh.
TrimUpper(ml, dim) ==
    LET upper_pml_cells == cfg.expand_bounds[dim + 1][2]
        mesh_idx == _line_above(ml, _highest_nonair_pos(dim))[1]
        del_num == Len(ml) - 1 - mesh_idx - upper_pml_cells
    IN IF upper_pml_cells > 0 /\ del_num > 0
       THEN SubSeq(ml, 1, Len(ml) - del_num)
       ELSE ml

\* Comparing None with a number raises TypeError.
TrimError(ml, dim) ==
    \/ /\ cfg.expand_bounds[dim + 1][1] > 0
       /\ _line_below(ml, _lowest_nonair_pos(dim))[1] = None
    \/ /\ cfg.expand_bounds[dim + 1][2] > 0
       /\ _line_above(TrimLower(ml, dim), _highest_nonair_pos(dim))[1] = None

\* The lines of a dimension after _trim_air_mesh.
_trim_air_mesh(ml, dim) ==
    IF cfg.simulation_bounds # << >> THEN ml
    ELSE TrimUpper(TrimLower(ml, dim), dim)

(***************************************************************************)
(* PMLUniformitySmoother.  A PML box is given by its extent                *)
(* << lower, upper >> in the direction of its boundary.                    *)
(***************************************************************************)
\* sim.boundary_conditions.pml_bounds()[dim][side] is
\* cfg.pml_cells[dim + 1][side].
PmlIndexError(ml_all) ==
    \E dim \in Dims :
        \/ cfg.pml_cells[dim + 1][1] >= Len(ml_all[dim])
        \/ cfg.pml_cells[dim + 1][2] >= Len(ml_all[dim])

\* The six boxes of pml_boxes() as extents, in the order xmin, xmax, ymin,
\* ymax, zmin, zmax (box i is boxes[i + 1]).
pml_boxes(ml_all) ==
    [k \in 1..6 |->
        LET dim == (k - 1) \div 2
            ml == ml_all[dim]
            n == cfg.pml_cells[dim + 1][2 - (k % 2)]
        IN IF k % 2 = 1 THEN << ml[1], ml[n + 1] >>
           ELSE << ml[Len(ml) - n], ml[Len(ml)] >>]

\* Box3.has_zero_dim() of a PML box: no extent in its own direction.
has_zero_dim(box) == box[1] = box[2]

\* _mesh_lines_in_box(mesh_lines, box)[dim]
_mesh_lines_in_box(ml, box) ==
    Slice(ml, bisect_left(ml, box[1]), bisect_right(ml, box[2]))

\* Index of the first size-ordered bounded type that holds pos, 0 without.
HolderOf(dim, pos) ==
    LET sob == size_ordered_bounded_types[dim]
        hits == {i \in 1..Len(sob) :
                    pos >= sob[i].lower_bound /\ pos <= sob[i].upper_bound}
    IN IF hits = {} THEN 0 ELSE CHOOSE i \in hits : \A j \in hits : i <= j

\* Faulty variant: the comparison of the spacings is turned around.
SpacingGrowsTurned(dist, limit_spacing, num_lines, smooth) ==
    /\ dist > limit_spacing * (num_lines - 1)
    /\ limit_spacing * (num_lines - 1) * FS >= smooth * dist

\* The test of the elif of _smooth_pml_mesh_lines: the spacing
\* dist / (num_lines - 1) is smaller than limit_spacing, by the factor
\* smooth or more.
SpacingGrows(dist, limit_spacing, num_lines, smooth) ==
    /\ dist < limit_spacing * (num_lines - 1)
    /\ limit_spacing * (num_lines - 1) * FS >= smooth * dist

\* Faulty variant: the new lines of a slab start at its innermost line.
new_lines_inner(lines, num_lines, sn, sd, is_lower_bound) ==
    IF is_lower_bound
    THEN [k \in 1..num_lines |->
             lines[num_lines] - ((num_lines - k) * sn) \div sd]
    ELSE [k \in 1..num_lines |-> lines[1] + ((k - 1) * sn) \div sd]

\* The new lines of a slab: num_lines lines with the spacing sn / sd from
\* its outermost line, in increasing order.
new_lines(lines, num_lines, sn, sd, is_lower_bound) ==
    IF is_lower_bound
    THEN [k \in 1..num_lines |-> lines[1] + ((k - 1) * sn) \div sd]
    ELSE [k \in 1..num_lines |->
             lines[num_lines] - ((num_lines - k) * sn) \div sd]

\* One iteration of the loop of _smooth_pml_mesh_lines: the lines ml of the
\* dimension of box i after it, and the exception it raises.  The spacing
\* of the new lines is the fraction sn / sd.
SmoothBox(ml, i, box) ==
    LET dim == i \div 2
        is_lower_bound == i % 2 = 0
        fixed == Elems(fixed_lines[dim])
        smooth == cfg.smooth[dim + 1]
        \* The transition of a lower slab: the lines between the slab and
        \* the line below the upper bound of the bounded type are replaced.
        Lower(ml2, num_lines, spacing, existing_bound, below) ==
            IF below[1] = None THEN [err |-> "TypeError", ml |-> ml2]
            ELSE IF below[1] + 1 >= Len(ml2)
            THEN [err |-> "IndexError", ml |-> ml2]
            ELSE [err |-> "none",
                  ml |-> _add_lines_to_mesh(
                             DelSlice(ml2, num_lines, below[1]),
                             _lines_const_factor_in_bounds(existing_bound,
                                 below[2], spacing,
                                 ml2[below[1] + 2] - below[2], 0, smooth),
                             fixed)]
        \* The transition of an upper slab.
        Upper(ml2, num_lines, spacing, existing_bound, above) ==
            IF above[1] = None THEN [err |-> "TypeError", ml |-> ml2]
            ELSE [err |-> "none",
                  ml |-> _add_lines_to_mesh(
                             DelSlice(ml2, above[1] + 1,
                                      Len(ml2) - num_lines),
                             _lines_const_factor_in_bounds(above[2],
                                 existing_bound,
                                 above[2] - ml2[IF above[1] = 0 THEN Len(ml2)
                                                ELSE above[1]],
                                 spacing, 0, smooth),
                             fixed)]
        \* holder is the bounded type that holds existing_bound.
        Transition(ml2, num_lines, spacing, existing_bound, holder) ==
            IF holder = 0 THEN [err |-> "TypeError", ml |-> ml2]
            ELSE IF is_lower_bound
            THEN Lower(ml2, num_lines, spacing, existing_bound,
                       _line_below(ml2,
                           size_ordered_bounded_types[dim][holder].upper_bound))
            ELSE Upper(ml2, num_lines, spacing, existing_bound,
                       _line_above(ml2,
                           size_ordered_bounded_types[dim][holder].lower_bound))
        \* The lines of the slab are replaced by new_lines.
        Moved(respaced, num_lines, spacing, existing_bound) ==
            Transition(_add_lines_to_mesh(
                           _clear_mesh_in_bounds(ml, respaced[1],
                                                 respaced[num_lines]),
                           respaced, fixed),
                       num_lines, spacing, existing_bound,
                       HolderOf(dim, existing_bound))
        \* The new lines have the spacing sn / sd.
        Respace(lines, num_lines, sn, sd) ==
            IF is_lower_bound
            THEN Moved(new_lines(lines, num_lines, sn, sd, TRUE),
                       num_lines, sn \div sd,
                       lines[1] + ((num_lines - 1) * sn) \div sd)
            ELSE Moved(new_lines(lines, num_lines, sn, sd, FALSE),
                       num_lines, sn \div sd,
                       lines[num_lines] - ((num_lines - 1) * sn) \div sd)
        Limited(lines, num_lines, dist, limit_spacing) ==
            LET clamp == dist > limit_spacing * (num_lines - 1)
                         /\ limit_spacing > 0
                         /\ dist * FS
                                >= smooth * limit_spacing * (num_lines - 1)
                grow == SpacingGrows(dist, limit_spacing, num_lines, smooth)
                sn == IF clamp THEN limit_spacing * smooth ELSE dist
                sd == IF clamp THEN FS ELSE num_lines - 1
            IN IF ~clamp /\ grow THEN [err |-> "RuntimeError", ml |-> ml]
               ELSE IF Abs(sn - limit_spacing * sd)
                          <= (Abs(limit_spacing) * sd) \div RtolDen
               THEN [err |-> "none", ml |-> ml]
               ELSE Respace(lines, num_lines, sn, sd)
        Slab(lines, num_lines, idx_lower, idx_upper) ==
            IF num_lines = 0 THEN [err |-> "IndexError", ml |-> ml]
            ELSE IF num_lines = 1
            THEN [err |-> "ZeroDivisionError", ml |-> ml]
            ELSE IF is_lower_bound /\ idx_upper >= Len(ml)
            THEN [err |-> "IndexError", ml |-> ml]
            ELSE Limited(lines, num_lines, lines[num_lines] - lines[1],
                     IF is_lower_bound THEN ml[idx_upper + 1] - ml[idx_upper]
                     ELSE ml[idx_lower + 1]
                          - ml[IF idx_lower = 0 THEN Len(ml) ELSE idx_lower])
        InBox(lines) ==
            Slab(lines, Len(lines), bisect_left(ml, lines[1]),
                 bisect_right(ml, lines[Len(lines)]))
    IN InBox(_mesh_lines_in_box(ml, box))

(***************************************************************************)
(* The operations of a Mesh.  generate_mesh runs as a sequence of steps,   *)
(* one per stage of the pipeline; pc.at names the stage to run next.       *)
(***************************************************************************)
MaxBuilds == 2
MaxOps == 1

Idle == [at |-> "idle", dim |-> 0, i |-> 0, boxes |-> << >>, show |-> FALSE]

At(stage) == [pc EXCEPT !.at = stage]

\* The build stops with an exception; the caller sees it.
Raise(e) ==
    /\ err' = e
    /\ pc' = Idle

\* generate_mesh up to _sort_bounded_types.  The fixed lines are set before
\* _set_expanded_bounds can raise.
GenerateMesh(show_pml) ==
    LET Expanded(fl, expanded) ==
            /\ bounded_types' = expanded
            /\ sim_bounds' =
                   [dim \in Dims |->
                       << expanded[dim][1].lower_bound,
                          expanded[dim][Len(expanded[dim])].upper_bound >>]
            /\ metal_bounds' = _set_metal_bounds(metal_bounds, expanded, fl)
            /\ size_ordered_bounded_types' = _sort_bounded_types(expanded)
            /\ err' = "none"
            /\ pc' = [at |-> "gen", dim |-> 0, i |-> 1, boxes |-> << >>,
                      show |-> show_pml]
        Expand(fl, btypes, e) ==
            IF e # "none"
            THEN /\ Raise(e)
                 /\ UNCHANGED << bounded_types, sim_bounds, metal_bounds,
                                 size_ordered_bounded_types >>
            ELSE Expanded(fl, _set_expanded_bounds(btypes, cfg))
        Typed(fl, btypes) ==
            /\ fixed_lines' = fl
            /\ Expand(fl, btypes, ExpandError(btypes, cfg))
        Bounded(physical_prims, fl) ==
            Typed(fl, _bounded_types(_bounds_from_prims(physical_prims, fl),
                                     physical_prims, fl))
        Physical(physical_prims) ==
            Bounded(physical_prims,
                    _set_fixed_lines(fixed_lines, physical_prims))
    IN /\ pc.at = "idle"
       /\ hist.builds < MaxBuilds
       /\ hist.builds = 0 \/ hist.constructed
       /\ show_pml \/ hist.builds > 0
       /\ hist' = [hist EXCEPT !.builds = @ + 1, !.before = mesh_lines,
                               !.clean = hist.fresh, !.fresh = FALSE,
                               !.op = "generate_mesh", !.thirds = {},
                               !.calls_at = Len(calls), !.grid_at = grid,
                               !.warned = {}, !.args = << >>]
       /\ call' = << >>
       /\ ret' = << >>
       /\ Physical(_physical_prims(prims))
       /\ UNCHANGED << prims, cfg, unique_index, structures,
                       mesh_lines, ranges_meshed, grid, calls >>

\* The thirds-rule case of a bounded type about to be meshed: a nonmetal
\* region below a fixed line p that carries a zero-width metal, with a
\* meshed metal region above p.  The record keeps p, the spacing s of the
\* metal at p, and the last spacing of the lines generated for the whole
\* region.
ThirdsCase(dim, btype) ==
    LET p == btype.upper_bound
        dist == p - btype.lower_bound
        Record(line_above, lines) ==
            {[dim |-> dim, p |-> p, s |-> line_above - p,
              last_spacing |-> lines[Len(lines)] - lines[Len(lines) - 1]]}
        Between(line_below, line_above) ==
            Record(line_above,
                   _gen_lines_in_bounds(btype.lower_bound, p,
                       _lower_spacing(dim, btype.lower_bound, line_below,
                                      dist, FALSE),
                       _upper_spacing(dim, p, line_above, dist, FALSE),
                       cfg.nonmetal_res, dim))
    IN IF /\ btype.prop_type # "metal"
          /\ dist > 0
          /\ _is_fixed_line(dim, p)
          /\ \E i \in 1..Len(bounded_types[dim]) :
                 /\ bounded_types[dim][i] = BoundedType("metal", p, p)
          /\ \E i \in 1..Len(bounded_types[dim]) :
                 /\ bounded_types[dim][i].prop_type = "metal"
                 /\ bounded_types[dim][i].lower_bound = p
                 /\ size(bounded_types[dim][i]) > 0
          /\ _type_above_meshed(dim, p)
          /\ _line_above(mesh_lines[dim], p)[2] # None
       THEN Between(_line_below(mesh_lines[dim], btype.lower_bound)[2],
                    _line_above(mesh_lines[dim], p)[2])
       ELSE {}

\* One iteration of _gen_mesh_for_bounded_types: the bounded type pc.i of
\* dimension pc.dim, in order of size, is meshed and recorded as meshed.
GenMeshStep ==
    LET dim == pc.dim
        btype == size_ordered_bounded_types[dim][pc.i]
    IN /\ pc.at = "gen"
       /\ hist' = [hist EXCEPT !.thirds = @ \cup ThirdsCase(dim, btype)]
       /\ mesh_lines' = [mesh_lines EXCEPT ![dim] =
                             _gen_mesh_in_bounds(dim, btype)]
       /\ ranges_meshed' = [ranges_meshed EXCEPT ![dim] =
              Append(@, << btype.lower_bound, btype.upper_bound >>)]
       /\ pc' = IF pc.i < Len(size_ordered_bounded_types[dim])
                THEN [pc EXCEPT !.i = @ + 1]
                ELSE IF dim < 2 THEN [pc EXCEPT !.dim = @ + 1, !.i = 1]
                ELSE At("trim")
       /\ UNCHANGED << call, ret, prims, cfg, unique_index, structures,
                       fixed_lines, metal_bounds, sim_bounds,
                       bounded_types, size_ordered_bounded_types, grid,
                       calls, err >>

\* _trim_air_mesh, then the call of pml_boxes() that opens
\* _smooth_pml_mesh_lines.
TrimAirMesh ==
    LET Trimmed(trimmed) ==
            /\ mesh_lines' = trimmed
            /\ IF PmlIndexError(trimmed)
               THEN Raise("IndexError")
               ELSE /\ pc' = [pc EXCEPT !.at = "smooth", !.i = 0,
                                        !.boxes = pml_boxes(trimmed)]
                    /\ UNCHANGED err
    IN /\ pc.at = "trim"
       /\ IF cfg.simulation_bounds = << >>
             /\ \E dim \in Dims : TrimError(mesh_lines[dim], dim)
          THEN /\ Raise("TypeError")
               /\ UNCHANGED mesh_lines
          ELSE Trimmed([dim \in Dims |-> _trim_air_mesh(mesh_lines[dim], dim)])
       /\ UNCHANGED << call, ret, prims, cfg, unique_index, structures,
                       fixed_lines, metal_bounds, ranges_meshed,
                       sim_bounds, bounded_types, size_ordered_bounded_types,
                       grid, calls, hist >>

\* One iteration of the loop of _smooth_pml_mesh_lines, for the box pc.i.
SmoothPmlStep ==
    LET i == pc.i
        dim == i \div 2
        box == pc.boxes[i + 1]
        next == IF i < 5 THEN [pc EXCEPT !.i = @ + 1]
                ELSE [pc EXCEPT !.at = "sink", !.i = 0, !.boxes = << >>]
        \* r is the outcome of the iteration: the lines of the dimension
        \* and the exception raised, if any.
        Smoothed(r) ==
            /\ mesh_lines' = [mesh_lines EXCEPT ![dim] = r.ml]
            /\ hist' = [hist EXCEPT !.smoothed =
                            @ \/ (r.err = "none" /\ r.ml # mesh_lines[dim])]
            /\ IF r.err # "none" THEN Raise(r.err)
               ELSE /\ pc' = next
                    /\ UNCHANGED err
    IN /\ pc.at = "smooth"
       /\ IF has_zero_dim(box)
          THEN /\ pc' = next
               /\ UNCHANGED << mesh_lines, err, hist >>
          ELSE Smoothed(SmoothBox(mesh_lines[dim], i, box))
       /\ UNCHANGED << call, ret, prims, cfg, unique_index, structures,
                       fixed_lines, metal_bounds, ranges_meshed,
                       sim_bounds, bounded_types, size_ordered_bounded_types,
                       grid, calls >>

\* Faulty variant: the lines are added to a grid that is not cleared.
_set_mesh_from_lines_noclear(c) == c \o << "AddLine" >>

\* _set_mesh_from_lines: the grid is cleared and gets every line.
_set_mesh_from_lines(c) == c \o << "ClearLines", "AddLine" >>

SetMeshFromLines ==
    /\ pc.at = "sink"
    /\ grid' = mesh_lines
    /\ calls' = _set_mesh_from_lines(calls)
    /\ pc' = At("show")
    /\ UNCHANGED << call, ret, prims, cfg, unique_index, structures,
                    mesh_lines, fixed_lines, metal_bounds,
                    ranges_meshed, sim_bounds, bounded_types,
                    size_ordered_bounded_types, err, hist >>

\* The primitive _show_pml constructs for the box i: a Material box over the
\* whole simulation box, cut to the PML in the direction of its boundary.
PmlPrim(ml_all, boxes, i) ==
    [b |-> [d \in Dims |->
               IF d = i \div 2 THEN boxes[i + 1]
               ELSE << ml_all[d][1], ml_all[d][Len(ml_all[d])] >>],
     ty |-> "Material"]

RECURSIVE ShowFrom(_, _, _, _)
ShowFrom(ps, ml_all, boxes, i) ==
    IF i > 5 THEN ps
    ELSE ShowFrom(IF has_zero_dim(boxes[i + 1]) THEN ps
                  ELSE Append(ps, PmlPrim(ml_all, boxes, i)),
                  ml_all, boxes, i + 1)

\* The primitives of the CSX after _show_pml(self.pml_boxes()).
_show_pml(ps, ml_all) == ShowFrom(ps, ml_all, pml_boxes(ml_all), 0)

ShowPml ==
    /\ pc.at = "show"
    /\ IF ~pc.show
       THEN /\ pc' = At("post")
            /\ UNCHANGED << prims, err >>
       ELSE IF PmlIndexError(mesh_lines)
       THEN /\ Raise("IndexError")
            /\ UNCHANGED prims
       ELSE /\ prims' = _show_pml(prims, mesh_lines)
            /\ pc' = At("post")
            /\ UNCHANGED err
    /\ UNCHANGED << call, ret, cfg, unique_index, structures,
                    mesh_lines, fixed_lines, metal_bounds, ranges_meshed,
                    sim_bounds, bounded_types, size_ordered_bounded_types,
                    grid, calls, hist >>

\* self.sim.post_mesh()
PostMesh ==
    /\ pc.at = "post"
    /\ calls' = Append(calls, "post_mesh")
    /\ pc' = At("check")
    /\ UNCHANGED << call, ret, prims, cfg, unique_index, structures,
                    mesh_lines, fixed_lines, metal_bounds,
                    ranges_meshed, sim_bounds, bounded_types,
                    size_ordered_bounded_types, grid, err, hist >>

\* The spacings after the first of a list of lines that are not equal to
\* the spacing before them, as _check_pml_mesh_uniform compares them.
UnevenAt(lines) ==
    {j \in 3..Len(lines) :
        ~fp_equalp(lines[j] - lines[j - 1], lines[j - 1] - lines[j - 2])}

\* _check_pml_mesh_uniform: the PML boxes in which it prints its message.
_check_pml_mesh_uniform(ml_all) ==
    LET boxes == pml_boxes(ml_all)
    IN {i \in 0..5 :
           /\ ~has_zero_dim(boxes[i + 1])
           /\ UnevenAt(_mesh_lines_in_box(ml_all[i \div 2],
                                          boxes[i + 1])) # {}}

\* Faulty variant: the first spacing is compared with no other.
_check_mesh_smooth_late(ml_all) ==
    {di \in UNION {{dim} \X (4..Len(ml_all[dim])) : dim \in Dims} :
        LET lines == ml_all[di[1]]
            j == di[2]
            spacing == lines[j] - lines[j - 1]
            last_spacing == lines[j - 1] - lines[j - 2]
        IN ~(Max2(spacing, last_spacing) * FS
               < cfg.smooth[di[1] + 1] * Min2(spacing, last_spacing))}

\* _check_mesh_smooth: the << dim, index >> of the lines it warns about.
_check_mesh_smooth(ml_all) ==
    {di \in UNION {{dim} \X (3..Len(ml_all[dim])) : dim \in Dims} :
        LET lines == ml_all[di[1]]
            j == di[2]
            spacing == lines[j] - lines[j - 1]
            last_spacing == lines[j - 1] - lines[j - 2]
        IN ~(Max2(spacing, last_spacing) * FS
               < cfg.smooth[di[1] + 1] * Min2(spacing, last_spacing))}

\* The checks that end generate_mesh; the call returns.
CheckMesh ==
    /\ pc.at = "check"
    /\ IF PmlIndexError(mesh_lines) \/ \E dim \in Dims : Len(mesh_lines[dim]) < 2
       THEN /\ Raise("IndexError")
            /\ UNCHANGED << calls, hist >>
       ELSE /\ pc' = Idle
            /\ calls' = calls
                   \o (IF _check_pml_mesh_uniform(mesh_lines) # {}
                       THEN << "print" >> ELSE << >>)
                   \o (IF _check_mesh_smooth(mesh_lines) # {}
                       THEN << "warn" >> ELSE << >>)
            /\ hist' = [hist EXCEPT !.done = @ + 1, !.constructed = TRUE,
                                    !.fresh = TRUE,
                                    !.warned = _check_mesh_smooth(mesh_lines),
                                    !.prev = hist.last, !.last = mesh_lines]
            /\ UNCHANGED err
    /\ UNCHANGED << call, ret, prims, cfg, unique_index, structures,
                    mesh_lines, fixed_lines, metal_bounds,
                    ranges_meshed, sim_bounds, bounded_types,
                    size_ordered_bounded_types, grid >>

(***************************************************************************)
(* The operations a user calls on a constructed Mesh between builds.       *)
(***************************************************************************)
\* The length 1.0 of the program in units of the model.
One == 20

UserOp ==
    /\ pc.at = "idle"
    /\ hist.constructed
    /\ hist.ops < MaxOps

Used(op) == [hist EXCEPT !.ops = @ + 1, !.fresh = FALSE,
                         !.before = mesh_lines, !.op = op]

\* self.mesh_lines[dim] after add_line_manual(dim, pos).
add_line_manual(ml, pos, fixed) == _add_lines_to_mesh(ml, << pos >>, fixed)

AddLineManual(dim, pos) ==
    /\ UserOp
    /\ mesh_lines' = [mesh_lines EXCEPT ![dim] =
                          add_line_manual(@, pos, Elems(fixed_lines[dim]))]
    /\ grid' = mesh_lines'
    /\ calls' = Append(_set_mesh_from_lines(calls), "post_mesh")
    /\ err' = "none"
    /\ hist' = Used("add_line_manual")
    /\ UNCHANGED << call, ret, prims, cfg, unique_index, structures,
                    fixed_lines, metal_bounds, ranges_meshed,
                    sim_bounds, bounded_types, size_ordered_bounded_types,
                    pc >>

\* self.fixed_lines[dim] after add_fixed_line(dim, pos)
add_fixed_line(fl, pos) == sorted(Append(fl, pos))

AddFixedLine(dim, pos) ==
    /\ UserOp
    /\ fixed_lines' = [fixed_lines EXCEPT ![dim] = add_fixed_line(@, pos)]
    /\ err' = "none"
    /\ hist' = [Used("add_fixed_line") EXCEPT !.asked = TRUE]
    /\ UNCHANGED << call, ret, prims, cfg, unique_index, structures,
                    mesh_lines, metal_bounds, ranges_meshed,
                    sim_bounds, bounded_types, size_ordered_bounded_types,
                    grid, calls, pc >>

\* Faulty variant: a negative index is taken as an index from the end.
get_mesh_line_error_wrap(ml, dim, index) ==
    IF dim > 2 \/ dim < 0 THEN "ValueError"
    ELSE IF index >= Len(ml) \/ index < -Len(ml) THEN "ValueError"
    ELSE "none"

\* The exception get_mesh_line(dim, index) raises, "none" without one.
get_mesh_line_error(ml, dim, index) ==
    IF dim > 2 \/ dim < 0 THEN "ValueError"
    ELSE IF ~_mesh_valid_index(ml, index) THEN "ValueError"
    ELSE "none"

\* self.mesh_lines[dim][index]; a negative index of a list counts from its
\* end.
get_mesh_line(ml, index) ==
    IF index < 0 THEN ml[Len(ml) + index + 1] ELSE ml[index + 1]

\* get_mesh_line(dim, index): ret is what it returns.
GetMeshLine(dim, index) ==
    LET ml == IF dim \in Dims THEN mesh_lines[dim] ELSE << >>
        Returned(e) ==
            /\ err' = e
            /\ ret' = IF e = "none" THEN << get_mesh_line(ml, index) >>
                      ELSE << >>
    IN /\ UserOp
       /\ call' = << "get_mesh_line", dim, index >>
       /\ Returned(get_mesh_line_error(ml, dim, index))
       /\ hist' = Used("get_mesh_line")
       /\ UNCHANGED << prims, cfg, unique_index, structures,
                       mesh_lines, fixed_lines, metal_bounds,
                       ranges_meshed, sim_bounds, bounded_types,
                       size_ordered_bounded_types, grid, calls, pc >>

\* An index of a list of Python is out of range.
IndexOutOfRange(ml, index) == index >= Len(ml) \/ index < -Len(ml)

\* The exception sim_box(include_pml) raises, "none" without one.
sim_box_error(ml_all, pml_cells, include_pml) ==
    IF \E dim \in Dims :
           IF include_pml THEN ml_all[dim] = << >>
           ELSE \/ IndexOutOfRange(ml_all[dim], pml_cells[dim + 1][1])
                \/ IndexOutOfRange(ml_all[dim], -1 - pml_cells[dim + 1][1])
    THEN "IndexError"
    ELSE "none"

\* The two corners of the Box3 that sim_box(include_pml) returns.
sim_box(ml_all, pml_cells, include_pml) ==
    IF include_pml
    THEN << [dim \in Dims |-> get_mesh_line(ml_all[dim], 0)],
            [dim \in Dims |-> get_mesh_line(ml_all[dim], -1)] >>
    ELSE << [dim \in Dims |->
                get_mesh_line(ml_all[dim], pml_cells[dim + 1][1])],
            [dim \in Dims |->
                get_mesh_line(ml_all[dim], -1 - pml_cells[dim + 1][1])] >>

\* sim_box(include_pml): ret is the two corners of the box.
SimBox(include_pml) ==
    LET Returned(e) ==
            /\ err' = e
            /\ ret' = IF e = "none"
                      THEN sim_box(mesh_lines, cfg.pml_cells, include_pml)
                      ELSE << >>
    IN /\ UserOp
       /\ call' = << "sim_box", include_pml >>
       /\ Returned(sim_box_error(mesh_lines, cfg.pml_cells, include_pml))
       /\ hist' = Used("sim_box")
       /\ UNCHANGED << prims, cfg, unique_index, structures,
                       mesh_lines, fixed_lines, metal_bounds,
                       ranges_meshed, sim_bounds, bounded_types,
                       size_ordered_bounded_types, grid, calls, pc >>

\* The exception set_lines_equidistant raises before it changes a line.
EquidistantError(ml, dim, lower, upper) ==
    LET bad == {i \in lower..upper : ~_mesh_valid_index(ml, i)}
        fix == {i \in lower..upper :
                   /\ _mesh_valid_index(ml, i)
                   /\ get_mesh_line(ml, i) \in Elems(fixed_lines[dim])}
        first(S) == CHOOSE i \in S : \A j \in S : i <= j
        lower_spacing ==
            IF lower # 0
            THEN get_mesh_line(ml, lower) - get_mesh_line(ml, lower - 1)
            ELSE None
        upper_spacing ==
            IF upper # Len(ml) - 1
            THEN get_mesh_line(ml, upper + 1) - get_mesh_line(ml, upper)
            ELSE None
        num_spaces == upper - lower
        dist == get_mesh_line(ml, upper) - get_mesh_line(ml, lower)
        \* abs(side - dist / num_spaces) > smooth[dim], a length
        far(side) ==
            Truthy(side)
            /\ Abs(side * num_spaces - dist) * FS
                   > cfg.smooth[dim + 1] * One * Abs(num_spaces)
    IN IF bad # {} /\ (fix = {} \/ first(bad) < first(fix))
       THEN "ValueError"
       ELSE IF fix # {} THEN "RuntimeError"
       ELSE IF ~_mesh_valid_index(ml, lower) \/ ~_mesh_valid_index(ml, upper)
               \/ (lower # 0 /\ ~_mesh_valid_index(ml, lower - 1))
               \/ (upper # Len(ml) - 1 /\ ~_mesh_valid_index(ml, upper + 1))
       THEN "ValueError"
       ELSE IF num_spaces = 0 THEN "ZeroDivisionError"
       ELSE IF far(lower_spacing) \/ far(upper_spacing) THEN "RuntimeError"
       ELSE IF num_spaces < -1 THEN "ValueError"
       ELSE "none"

\* Faulty variant: one line fewer is put back than was cleared.
set_lines_equidistant_short(ml, lower, upper) ==
    InsortAll(_clear_mesh_in_bounds(ml, ml[lower + 1], ml[upper + 1]),
              linspace(ml[lower + 1], ml[upper + 1], upper - lower),
              1, upper - lower)

\* self.mesh_lines[dim] after set_lines_equidistant(dim, lower, upper)
\* without an exception: the lines of the range are cleared and as many
\* evenly spread lines are inserted, each by _add_mesh_line.
set_lines_equidistant(ml, lower, upper) ==
    LET lower_pos == get_mesh_line(ml, lower)
        upper_pos == get_mesh_line(ml, upper)
    IN IF upper < lower THEN ml
       ELSE InsortAll(_clear_mesh_in_bounds(ml, lower_pos, upper_pos),
                      linspace(lower_pos, upper_pos, upper - lower + 1),
                      1, upper - lower + 1)

\* With one line in the range the spacing is 0 / 0: a numpy number gives
\* nan and the line is put back, a Python float raises ZeroDivisionError.
SetLinesEquidistant(dim, lower, upper) ==
    LET ml == mesh_lines[dim]
        e == EquidistantError(ml, dim, lower, upper)
    IN /\ UserOp
       /\ hist' = [Used("set_lines_equidistant")
                      EXCEPT !.args = << dim, lower, upper >>]
       /\ \/ /\ e = "none" \/ e = "ZeroDivisionError"
             /\ mesh_lines' = [mesh_lines EXCEPT ![dim] =
                    IF e = "none" THEN set_lines_equidistant(ml, lower, upper)
                    ELSE ml]
             /\ grid' = mesh_lines'
             /\ calls' = _set_mesh_from_lines(calls)
             /\ err' = "none"
          \/ /\ e # "none"
             /\ err' = e
             /\ UNCHANGED << mesh_lines, grid, calls >>
       /\ UNCHANGED << call, ret, prims, cfg, unique_index, structures,
                       fixed_lines, metal_bounds, ranges_meshed,
                       sim_bounds, bounded_types, size_ordered_bounded_types,
                       pc >>

\* The user adds a primitive to the CSX structure.
AddPrimitive(prim) ==
    /\ UserOp
    /\ prims' = Append(prims, prim)
    /\ err' = "none"
    /\ hist' = Used("add_primitive")
    /\ UNCHANGED << call, ret, cfg, unique_index, structures,
                    mesh_lines, fixed_lines, metal_bounds, ranges_meshed,
                    sim_bounds, bounded_types, size_ordered_bounded_types,
                    grid, calls, pc >>

(***************************************************************************)
(* The structures and configurations the model is run on.                  *)
(***************************************************************************)
Box(x0, x1, y0, y1, z0, z1, ty) ==
    [b |-> [d \in Dims |-> IF d = 0 THEN << x0, x1 >>
                           ELSE IF d = 1 THEN << y0, y1 >>
                           ELSE << z0, z1 >>],
     ty |-> ty]

\* A microstrip: a substrate, a ground plane below and a trace on top.
Microstrip ==
    << Box(0, 400, 0, 300, 0, 120, "Material"),
       Box(0, 400, 0, 300, 0, 0, "Metal"),
       Box(0, 400, 120, 180, 120, 120, "ConductingSheet") >>

\* A sheet at z = 100 under a metal block, on a substrate.
SheetUnderBlock ==
    << Box(0, 300, 0, 300, 0, 100, "Material"),
       Box(0, 300, 0, 300, 100, 100, "ConductingSheet"),
       Box(60, 240, 90, 210, 100, 160, "Metal") >>

\* A metal block inside a dielectric, and a dump box that is no physical
\* primitive.
BlockInside ==
    << Box(0, 360, 0, 240, 0, 200, "Material"),
       Box(100, 220, 60, 180, 50, 110, "Metal"),
       Box(0, 50, 0, 50, 0, 50, "DumpBox") >>

\* A sheet at z = 450 under a thick metal block, on a slab.
SheetUnderSlab ==
    << Box(0, 600, 0, 600, 150, 450, "Material"),
       Box(0, 600, 0, 600, 450, 450, "ConductingSheet"),
       Box(150, 400, 150, 400, 450, 690, "Metal") >>

\* Two dielectric layers below z = 0, the upper one thin.
TwoLayers ==
    << Box(0, 300, 0, 300, -140, -40, "Material"),
       Box(0, 300, 0, 300, -40, 0, "Material") >>

NoCells == << << 0, 0 >>, << 0, 0 >>, << 0, 0 >> >>

Config(metal_res, min_lines, smooth, expand, bounds, pml) ==
    [metal_res |-> metal_res, nonmetal_res |-> 2 * metal_res,
     smooth |-> << smooth, smooth, 15000 >>, min_lines |-> min_lines,
     expand_bounds |-> expand, simulation_bounds |-> bounds,
     pml_cells |-> pml]

\* Air and PML on every side.
AllSides ==
    Config(40, 5, 15000, << << 3, 3 >>, << 3, 3 >>, << 3, 3 >> >>, << >>,
           << << 2, 2 >>, << 2, 2 >>, << 2, 2 >> >>)

\* Air on some sides, with as many PML cells as added cells.
SomeSides ==
    Config(40, 4, 13000, << << 0, 0 >>, << 2, 2 >>, << 0, 3 >> >>, << >>,
           << << 0, 0 >>, << 2, 2 >>, << 0, 3 >> >>)

NoExpansion == Config(40, 5, 15000, NoCells, << >>, NoCells)

\* Two lines per region at least.
TwoLines == Config(40, 2, 15000, NoCells, << >>, NoCells)

\* A coarse mesh with few lines per region.
Coarse == Config(90, 3, 15000, NoCells, << >>, NoCells)

\* A PML of more cells than the air added, so that it reaches into the
\* structure.
DeepPml ==
    Config(30, 3, 13000, << << 1, 1 >>, << 2, 2 >>, << 0, 0 >> >>, << >>,
           << << 4, 4 >>, << 2, 2 >>, << 0, 0 >> >>)

\* Absolute bounds around the structure.
AbsoluteWide ==
    Config(40, 5, 15000, NoCells,
           << << -100, 500 >>, << 0, 400 >>, << -80, 300 >> >>, NoCells)

\* Absolute bounds that cut into the structure.
AbsoluteNarrow ==
    Config(40, 5, 15000, NoCells,
           << << -100, 500 >>, << 20, 400 >>, << -80, 300 >> >>, NoCells)

\* Absolute bounds together with cells of expansion, and a PML on x.
AbsoluteExpanded ==
    Config(40, 5, 15000, << << 3, 3 >>, << 3, 3 >>, << 3, 3 >> >>,
           << << -100, 500 >>, << 0, 400 >>, << -80, 300 >> >>,
           << << 2, 2 >>, << 0, 0 >>, << 0, 0 >> >>)

Setups ==
    { << Microstrip, AllSides >>, << Microstrip, SomeSides >>,
      << Microstrip, AbsoluteWide >>, << Microstrip, AbsoluteNarrow >>,
      << SheetUnderBlock, NoExpansion >>, << SheetUnderBlock, AllSides >>,
      << BlockInside, SomeSides >>, << BlockInside, AbsoluteWide >>,
      << SheetUnderSlab, Coarse >>, << Microstrip, DeepPml >>,
      << SheetUnderBlock, AbsoluteExpanded >>, << TwoLayers, TwoLines >> }

\* Primitives a user adds between two builds.
ExtraPrims ==
    { Box(-200, 0, 100, 200, 40, 40, "Metal"),
      Box(150, 250, 100, 200, 200, 320, "Material") }

(***************************************************************************)
(* Structure objects (structure.py): the counters of the classes and the   *)
(* names of the properties a construct() adds to sim.csx.                  *)
(***************************************************************************)
MaxStructures == 3
MaxConstructs == 3

\* Structure and the subclasses modelled.  Each of them has a unique_index
\* of its own in its class body, so none reads the counter of its base.
Classes == {"Structure", "Via", "Taper", "Miter", "SMDPassive"}

\* str() of an integer.
str(n) == ToString(n)

\* cls._get_ctr()
_get_ctr(ui, cls) == ui[cls]

\* cls.unique_index after cls._inc_ctr()
_inc_ctr(ui, cls) == [ui EXCEPT ![cls] = _get_ctr(ui, cls) + 1]

\* cls._get_inc_ctr(): the value returned and cls.unique_index afterwards.
_get_inc_ctr(ui, cls) ==
    [ctr |-> _get_ctr(ui, cls), unique_index |-> _inc_ctr(ui, cls)]

\* The layers of a Via: the copper layers of a PCB of two.
ViaLayers == << 0, 1 >>

\* The names Via.construct gives to add_metal, add_material and
\* add_conducting_sheet, in order (no fill, no layer without connection).
ViaNames(s) ==
    LET _via_name == "via_" \o str(s._index)
        _air_name == "air_" \o str(s._index)
        _pad_name(layer) == _via_name \o "_pad_layer_" \o str(layer)
    IN << _via_name, _air_name >>
       \o [k \in 1..Len(ViaLayers) |-> _pad_name(ViaLayers[k])]

\* The names Taper.construct gives to add_conducting_sheet and add_material.
TaperNames(s, ui) ==
    LET _taper_name == "taper_" \o str(_get_ctr(ui, "Taper"))
        _gap_name == "taper_" \o str(_get_ctr(ui, "Taper")) \o "_gap"
    IN << _taper_name >> \o (IF s.gap THEN << _gap_name >> ELSE << >>)

\* The names Miter.construct gives to add_conducting_sheet and add_material.
MiterNames(s) ==
    LET _trace_name == "miter_trace_" \o str(s._index)
        _gap_name == "miter_gap_" \o str(s._index)
    IN << _trace_name >> \o (IF s.gap THEN << _gap_name >> ELSE << >>)

\* The names SMDPassive.construct gives to add_conducting_sheet,
\* AddLumpedElement and add_material (no cutout of the ground plane).
SMDPassiveNames(s, ui) ==
    LET _smd_name == "SMDPassive_" \o str(_get_ctr(ui, "SMDPassive"))
        _pad_name == _smd_name \o "_pad"
        _gap_name == _smd_name \o "_gap"
    IN << _pad_name, _smd_name >>
       \o (IF s.gap THEN << _gap_name >> ELSE << >>)

\* construct() of the object s: the object and the counters afterwards, and
\* the names of the properties added.
construct(s, ui) ==
    LET Built(obj, ctrs, names) ==
            [self |-> obj, unique_index |-> ctrs, names |-> names]
        ViaBuilt(r) ==
            Built([s EXCEPT !._index = r.ctr], r.unique_index,
                  ViaNames([s EXCEPT !._index = r.ctr]))
    IN CASE s.cls = "Via" -> ViaBuilt(_get_inc_ctr(ui, "Via"))
         [] s.cls = "Taper" -> Built(s, ui, TaperNames(s, ui))
         [] s.cls = "Miter" -> Built(s, ui, MiterNames(s))
         [] s.cls = "SMDPassive" -> Built(s, ui, SMDPassiveNames(s, ui))

\* cls.__init__ up to its call of construct: the object and the counters.
\* Only Miter draws its index here.
__init__(cls, gap, ui) ==
    LET New(index, ctrs) ==
            [self |-> [cls |-> cls, _index |-> index, gap |-> gap],
             unique_index |-> ctrs]
        MiterNew(r) == New(r.ctr, r.unique_index)
    IN IF cls = "Miter" THEN MiterNew(_get_inc_ctr(ui, "Miter"))
       ELSE New(None, ui)

\* The state of a Mesh when __init__ reaches its call of generate_mesh.
Init ==
    /\ \E setup \in Setups :
           /\ prims = setup[1]
           /\ cfg = setup[2]
    /\ call = << >>
    /\ ret = << >>
    /\ unique_index = [cls \in Classes |-> 0]
    /\ structures = << >>
    /\ mesh_lines = [d \in Dims |-> << >>]
    /\ fixed_lines = [d \in Dims |-> << >>]
    /\ metal_bounds = [d \in Dims |-> << >>]
    /\ ranges_meshed = [d \in Dims |-> << >>]
    /\ sim_bounds = [d \in Dims |-> << >>]
    /\ bounded_types = [d \in Dims |-> << >>]
    /\ size_ordered_bounded_types = [d \in Dims |-> << >>]
    /\ grid = [d \in Dims |-> << >>]
    /\ calls = << >>
    /\ pc = Idle
    /\ err = "none"
    /\ hist = [builds |-> 0, done |-> 0, ops |-> 0, constructed |-> FALSE,
               fresh |-> FALSE, clean |-> FALSE, smoothed |-> FALSE,
               asked |-> FALSE, op |-> "__init__", thirds |-> {},
               calls_at |-> 0, grid_at |-> [d \in Dims |-> << >>],
               warned |-> {}, args |-> << >>,
               before |-> [d \in Dims |-> << >>],
               prev |-> [d \in Dims |-> << >>],
               last |-> [d \in Dims |-> << >>]]

\* Positions a user asks a line at: below every line, between the first
\* two lines, and within tolerance of the second.
LinePositions(dim) ==
    LET ml == mesh_lines[dim]
    IN IF Len(ml) < 2 THEN {0}
       ELSE {ml[1] - 50, (ml[1] + ml[2]) \div 2, ml[2] + 1}

\* The dimensions and indices a user asks a line of: outside and inside
\* of what there is.
LineIndices ==
    {<< -1, 0 >>, << 3, 0 >>, << 0, -1 >>, << 0, 0 >>, << 2, 1 >>,
     << 1, Len(mesh_lines[1]) - 1 >>, << 1, Len(mesh_lines[1]) >>}

\* Index ranges a user asks to be made equidistant.
IndexRanges(dim) ==
    {<< 0, 2 >>, << 1, 3 >>, << 2, 2 >>, << 3, 2 >>,
     << Len(mesh_lines[dim]) - 2, Len(mesh_lines[dim]) >>}

Next ==
    \/ \E show_pml \in BOOLEAN : GenerateMesh(show_pml)
    \/ GenMeshStep
    \/ TrimAirMesh
    \/ SmoothPmlStep
    \/ SetMeshFromLines
    \/ ShowPml
    \/ PostMesh
    \/ CheckMesh
    \/ \E dim \in Dims : \E pos \in LinePositions(dim) :
           AddLineManual(dim, pos)
    \/ \E dim \in Dims : \E pos \in LinePositions(dim) :
           AddFixedLine(dim, pos)
    \/ \E dim \in Dims : \E r \in IndexRanges(dim) :
           SetLinesEquidistant(dim, r[1], r[2])
    \/ \E prim \in ExtraPrims : AddPrimitive(prim)
    \/ \E a \in LineIndices : GetMeshLine(a[1], a[2])
    \/ \E include_pml \in BOOLEAN : SimBox(include_pml)

Spec == Init /\ [][Next]_vars

(***************************************************************************)
(* Properties of the mesh builds.                                          *)
(***************************************************************************)
\* A build has just returned without an exception.
BuildDone == pc.at = "idle" /\ hist.fresh

StrictlyIncreasing(lst) == \A i \in 1..(Len(lst) - 1) : lst[i] < lst[i + 1]

\* C1: on every axis mesh_lines is strictly increasing in every state:
\* after each step of a build, trimming and PML smoothing included, and
\* after add_line_manual and set_lines_equidistant.
C1_StrictlyIncreasing == \A dim \in Dims : StrictlyIncreasing(mesh_lines[dim])

\* set_lines_equidistant has moved lines of a mesh whose build trimmed air
\* and smoothed a PML.
C1_Witness ==
    /\ hist.op = "set_lines_equidistant"
    /\ err = "none"
    /\ mesh_lines # hist.before
    /\ hist.smoothed
    /\ \E dim \in Dims : Len(mesh_lines[dim]) > 10

\* How often a position is a line of a list.
Count(lst, pos) == Cardinality({j \in 1..Len(lst) : lst[j] = pos})

\* C2: after a build every position of fixed_lines is a line of the mesh
\* of its axis exactly once.
C2_FixedLinesInMesh ==
    BuildDone =>
        \A dim \in Dims : \A i \in 1..Len(fixed_lines[dim]) :
            Count(mesh_lines[dim], fixed_lines[dim][i]) = 1

\* The lines of the PML slab of box i on the finished mesh.
SlabLines(i) ==
    LET ml == mesh_lines[i \div 2]
        n == cfg.pml_cells[(i \div 2) + 1][(i % 2) + 1]
    IN IF i % 2 = 0 THEN SubSeq(ml, 1, n + 1)
       ELSE SubSeq(ml, Len(ml) - n, Len(ml))

\* Every spacing of the lines equals every other, up to the rounding of a
\* position to a unit of the model.
EquallySpaced(lines) ==
    \A j, k \in 2..Len(lines) :
        Abs((lines[j] - lines[j - 1]) - (lines[k] - lines[k - 1])) <= 1

\* C3: after a build the n + 1 lines of every PML slab with n > 0 cells are
\* equally spaced.
C3_PmlUniform ==
    BuildDone =>
        \A i \in 0..5 :
            cfg.pml_cells[(i \div 2) + 1][(i % 2) + 1] > 0
                => EquallySpaced(SlabLines(i))

\* C4: a second generate_mesh on a Mesh whose primitives and configuration
\* the user has not touched leaves the lines of the first.
C4_Idempotent == (BuildDone /\ hist.clean) => hist.last = hist.prev

\* The absolute simulation bounds leave out part of the physical
\* primitives, beyond tolerance.
GeometryNarrow ==
    /\ cfg.simulation_bounds # << >>
    /\ \E dim \in Dims :
        \E i \in 1..Len(prims) :
            /\ _prim_metalp(prims[i]) \/ _prim_materialp(prims[i])
            /\ \/ cfg.simulation_bounds[dim + 1][1] - prims[i].b[dim][1] > Tol
               \/ prims[i].b[dim][2] - cfg.simulation_bounds[dim + 1][2] > Tol

\* C5: generate_mesh called with absolute bounds narrower than the geometry
\* raises ValueError and leaves mesh_lines as they were when it was called.
\* The geometry is the one of the call: a build that succeeds may itself
\* add the boxes of the PML to the structure (show_pml).
C5_NarrowBoundsRaise ==
    [][(pc.at = "idle" /\ hist'.builds = hist.builds + 1 /\ GeometryNarrow)
          => /\ pc'.at = "idle"
             /\ err' = "ValueError"
             /\ mesh_lines' = mesh_lines]_vars

\* A build of a meshed structure was refused for its bounds.
C5_Witness ==
    /\ hist.op = "generate_mesh"
    /\ err = "ValueError"
    /\ GeometryNarrow
    /\ \A dim \in Dims : Len(mesh_lines[dim]) > 2

\* The intervals of a list follow one another without gap or overlap.
Gapless(btypes) ==
    /\ \A i \in 1..Len(btypes) : btypes[i].lower_bound <= btypes[i].upper_bound
    /\ \A i \in 1..(Len(btypes) - 1) :
           btypes[i].upper_bound = btypes[i + 1].lower_bound

\* C6: once a build has expanded the bounded types, on every axis they are
\* gapless, start at the lower simulation bound and end at the upper.
C6_BoundedTypesPartition ==
    \A dim \in Dims :
        bounded_types[dim] # << >> =>
            /\ Gapless(bounded_types[dim])
            /\ bounded_types[dim][1].lower_bound = sim_bounds[dim][1]
            /\ bounded_types[dim][Len(bounded_types[dim])].upper_bound
                   = sim_bounds[dim][2]

\* Absolute bounds have added air next to an axis with a zero-width
\* interval, and an axis was left without expansion.
C6_Witness ==
    /\ cfg.simulation_bounds # << >>
    /\ \E dim \in Dims :
           /\ bounded_types[dim] # << >>
           /\ bounded_types[dim][1].prop_type = "air"
           /\ \E i \in 1..Len(bounded_types[dim]) :
                  size(bounded_types[dim][i]) = 0
    /\ \E dim \in Dims :
           /\ bounded_types[dim] # << >>
           /\ bounded_types[dim][1].prop_type # "air"

\* The nearest line below a position, None without one.
LineBelow(ml, p) ==
    LET below == {j \in 1..Len(ml) : ml[j] < p}
    IN IF below = {} THEN None
       ELSE ml[CHOOSE j \in below : \A k \in below : k <= j]

\* The thirds-rule cases the step of a build has just met: meshing the
\* nonmetal interval below a sheet at p with meshed metal above it.
JustMeshed == hist'.thirds \ hist.thirds

\* C7 as stated: in the build of a new Mesh, meshing the nonmetal interval
\* below the sheet at p places the line nearest below p at p - (2/3) s, s
\* being the spacing of the meshed metal above p.
C7_TwoThirdsOfMetalSpacing ==
    [][\A r \in JustMeshed :
          hist'.builds = 1 =>
              fp_equalp(LineBelow(mesh_lines'[r.dim], r.p),
                        r.p - (2 * r.s) \div 3)]_vars

\* C7: in the build of a new Mesh, meshing the nonmetal interval below the
\* sheet at p places the line nearest below p two thirds of min(last
\* spacing of the lines first generated for the interval, metal_res) below
\* p, and p itself stays a line.
C7_TwoThirdsOfLastSpacing ==
    [][\A r \in JustMeshed :
          hist'.builds = 1 =>
              /\ LineBelow(mesh_lines'[r.dim], r.p)
                     = r.p - (2 * Min2(r.last_spacing, cfg.metal_res)) \div 3
              /\ Count(mesh_lines'[r.dim], r.p) = 1]_vars

\* A build of a new Mesh has met the thirds-rule case with a last spacing
\* other than the spacing of the metal, and the line below the sheet lies
\* two thirds of that last spacing below it.
C7_Witness ==
    /\ hist.builds = 1
    /\ pc.at = "gen"
    /\ \E r \in hist.thirds :
           /\ r.last_spacing # r.s
           /\ r.s > 0
           /\ r.last_spacing < cfg.metal_res
           /\ LineBelow(mesh_lines[r.dim], r.p)
                  = r.p - (2 * r.last_spacing) \div 3

\* What the running or the last build called on the collaborators.
BuildCalls(c, h) == SubSeq(c, h.calls_at + 1, Len(c))

Occurrences(c, name) == Cardinality({k \in 1..Len(c) : c[k] = name})

\* A step of generate_mesh that ends it with an exception before
\* _set_mesh_from_lines is reached.
RaisedBeforeSink ==
    /\ pc.at \in {"idle", "gen", "trim", "smooth"}
    /\ hist'.op = "generate_mesh"
    /\ pc'.at = "idle"
    /\ err' # "none"

\* C11: within generate_mesh the grid is cleared and written only after
\* the fixed lines, the bounded types, the lines, the trimming and the PML
\* smoothing are done: while these run, and when one of them raises, the
\* build has called neither ClearLines, AddLine nor post_mesh and the grid
\* is the one the build started with; when a build returns without an
\* exception the grid holds mesh_lines and the build has called ClearLines
\* and AddLine first and post_mesh once, after them.
C11_SinkWrittenLast ==
    [][/\ (hist'.op = "generate_mesh"
           /\ (pc'.at \in {"gen", "trim", "smooth", "sink"}
               \/ RaisedBeforeSink))
          => /\ BuildCalls(calls', hist') = << >>
             /\ grid' = hist'.grid_at
       /\ (pc'.at = "idle" /\ hist'.fresh /\ ~hist.fresh)
          => /\ grid' = mesh_lines'
             /\ Len(BuildCalls(calls', hist')) >= 3
             /\ SubSeq(BuildCalls(calls', hist'), 1, 3)
                    = << "ClearLines", "AddLine", "post_mesh" >>
             /\ Occurrences(BuildCalls(calls', hist'), "post_mesh") = 1
             /\ Occurrences(BuildCalls(calls', hist'), "ClearLines") = 1]_vars

\* A second build has raised before it reached the grid, which still holds
\* the lines of the first build.
C11_Witness ==
    /\ pc.at = "idle"
    /\ hist.op = "generate_mesh"
    /\ err # "none"
    /\ hist.builds = 2
    /\ hist.calls_at >= 3
    /\ BuildCalls(calls, hist) = << >>
    /\ grid = hist.grid_at
    /\ grid[0] # << >>

\* The lines of the slab the running iteration of the PML smoothing works
\* on: the lines of its dimension inside its box.
SmoothSlab ==
    {x \in Elems(mesh_lines[pc.i \div 2]) :
        x >= pc.boxes[pc.i + 1][1] /\ x <= pc.boxes[pc.i + 1][2]}

SetMin(S) == CHOOSE x \in S : \A y \in S : x <= y

SetMax(S) == CHOOSE x \in S : \A y \in S : x >= y

\* The lines of the dimension beyond the slab, on the side of the
\* structure.
BeyondSlab ==
    IF pc.i % 2 = 0
    THEN {x \in Elems(mesh_lines[pc.i \div 2]) : x > SetMax(SmoothSlab)}
    ELSE {x \in Elems(mesh_lines[pc.i \div 2]) : x < SetMin(SmoothSlab)}

\* The size of the cell just outside the slab.
LimitCell ==
    IF pc.i % 2 = 0 THEN SetMin(BeyondSlab) - SetMax(SmoothSlab)
    ELSE SetMin(SmoothSlab) - SetMax(BeyondSlab)

\* The uniform spacing of the slab, its extent over the number of its
\* cells, is smaller than the cell outside by the smoothness factor of
\* the axis or more.
SlabMustGrow ==
    /\ pc.at = "smooth"
    /\ ~has_zero_dim(pc.boxes[pc.i + 1])
    /\ Cardinality(SmoothSlab) >= 2
    /\ BeyondSlab # {}
    /\ (SetMax(SmoothSlab) - SetMin(SmoothSlab)) * cfg.smooth[(pc.i \div 2) + 1]
           <= LimitCell * (Cardinality(SmoothSlab) - 1) * FS

\* C12: when the PML smoothing comes to a slab whose uniform spacing is
\* smaller than the cell just outside the slab by the smoothness factor of
\* the axis or more, the step raises RuntimeError, moves no line, and the
\* build ends there: the grid is not written and no collaborator called.
C12_GrowthRaises ==
    [][SlabMustGrow
          => /\ err' = "RuntimeError"
             /\ pc'.at = "idle"
             /\ mesh_lines' = mesh_lines
             /\ grid' = grid
             /\ calls' = calls]_vars

\* A build has ended with the RuntimeError of the PML smoothing.
C12_Witness ==
    /\ pc.at = "idle"
    /\ hist.op = "generate_mesh"
    /\ err = "RuntimeError"
    /\ BuildCalls(calls, hist) = << >>
    /\ \E dim \in Dims : mesh_lines[dim] # hist.before[dim]

\* The cells j - 1 and j of the lines, next to each other, have a ratio of
\* sizes, the larger over the smaller, below the factor smooth.
CellsSmooth(lines, j, smooth) ==
    /\ (lines[j + 1] - lines[j]) * FS < smooth * (lines[j] - lines[j - 1])
    /\ (lines[j] - lines[j - 1]) * FS < smooth * (lines[j + 1] - lines[j])

EquidistantCalled ==
    /\ hist'.op = "set_lines_equidistant"
    /\ hist'.ops = hist.ops + 1

\* A line with an index of lower..upper is a fixed line.
FixedInRange(ml, fixed, lower, upper) ==
    \E i \in lower..upper : i >= 0 /\ i < Len(ml) /\ ml[i + 1] \in fixed

\* The ratio of the spacings a / n and b, the larger over the smaller, is
\* not below the factor smooth.
RatioViolates(a, n, b, smooth) ==
    Max2(a, b * n) * FS >= smooth * Min2(a, b * n)

\* The uniform spacing of the lines lower..upper and the spacing to the
\* line just below lower, or just above upper, violate the smoothness.
NeighbourUnsmooth(ml, lower, upper, smooth) ==
    /\ lower >= 0
    /\ lower < upper
    /\ upper < Len(ml)
    /\ \/ /\ lower > 0
          /\ RatioViolates(ml[upper + 1] - ml[lower + 1], upper - lower,
                           ml[lower + 1] - ml[lower], smooth)
       \/ /\ upper < Len(ml) - 1
          /\ RatioViolates(ml[upper + 1] - ml[lower + 1], upper - lower,
                           ml[upper + 2] - ml[upper + 1], smooth)

\* C14: set_lines_equidistant(dim, lower, upper) ends with an exception
\* and leaves mesh_lines and the grid as they were, whenever a line with
\* an index of lower..upper is a fixed line, and whenever the uniform
\* spacing and the spacing to the neighbour line just below lower or just
\* above upper have a ratio that violates the smoothness factor of the
\* axis.
C14_EquidistantRefuses ==
    [][EquidistantCalled
          => ((\/ FixedInRange(mesh_lines[hist'.args[1]],
                               Elems(fixed_lines[hist'.args[1]]),
                               hist'.args[2], hist'.args[3])
               \/ NeighbourUnsmooth(mesh_lines[hist'.args[1]],
                                    hist'.args[2], hist'.args[3],
                                    cfg.smooth[hist'.args[1] + 1]))
                 => /\ err' # "none"
                    /\ mesh_lines' = mesh_lines
                    /\ grid' = grid)]_vars

\* C15: when set_lines_equidistant(dim, lower, upper) returns without an
\* exception and lower < upper, the lines lower..upper of the axis are
\* equally spaced, the lines at lower and at upper are where they were,
\* the axis has as many lines as before, every line outside lower..upper
\* and every line of the other axes is as before, and the grid is
\* rewritten to mesh_lines.
C15_EquidistantFrame ==
    [][(EquidistantCalled /\ err' = "none" /\ hist'.args[2] < hist'.args[3])
          => /\ EquallySpaced(SubSeq(mesh_lines'[hist'.args[1]],
                                     hist'.args[2] + 1, hist'.args[3] + 1))
             /\ Len(mesh_lines'[hist'.args[1]])
                    = Len(mesh_lines[hist'.args[1]])
             /\ \A k \in 1..Len(mesh_lines[hist'.args[1]]) :
                    (k <= hist'.args[2] + 1 \/ k >= hist'.args[3] + 1)
                        => mesh_lines'[hist'.args[1]][k]
                               = mesh_lines[hist'.args[1]][k]
             /\ \A dim \in Dims \ {hist'.args[1]} :
                    mesh_lines'[dim] = mesh_lines[dim]
             /\ grid' = mesh_lines'
             /\ calls' = calls \o << "ClearLines", "AddLine" >>]_vars

\* set_lines_equidistant has moved a line of a range of three or more
\* lines.
C15_Witness ==
    /\ pc.at = "idle"
    /\ hist.op = "set_lines_equidistant"
    /\ err = "none"
    /\ hist.args[3] - hist.args[2] >= 2
    /\ mesh_lines[hist.args[1]] # hist.before[hist.args[1]]
    /\ Len(mesh_lines[hist.args[1]]) = Len(hist.before[hist.args[1]])
    /\ grid = mesh_lines

\* The fields of the Mesh and what it has written to its collaborators.
MeshState ==
    << prims, cfg, mesh_lines, fixed_lines, metal_bounds, ranges_meshed,
       sim_bounds, bounded_types, size_ordered_bounded_types, grid, calls >>

\* C16: get_mesh_line(dim, index) changes nothing of the Mesh; it raises
\* ValueError when dim is not 0, 1 or 2 or when index is not one of
\* 0..len(mesh_lines[dim]) - 1, a negative index included, and returns
\* mesh_lines[dim][index] otherwise.
C16_GetMeshLine ==
    [][(hist'.op = "get_mesh_line" /\ hist'.ops = hist.ops + 1)
          => /\ UNCHANGED MeshState
             /\ IF call'[2] \notin {0, 1, 2}
                THEN err' = "ValueError" /\ ret' = << >>
                ELSE IF call'[3] \notin 0..(Len(mesh_lines[call'[2]]) - 1)
                THEN err' = "ValueError" /\ ret' = << >>
                ELSE /\ err' = "none"
                     /\ ret' = << mesh_lines[call'[2]][call'[3] + 1] >>]_vars

\* get_mesh_line has raised for a negative index of an axis with lines.
C16_Witness ==
    /\ hist.op = "get_mesh_line"
    /\ call = << "get_mesh_line", 0, -1 >>
    /\ Len(mesh_lines[0]) > 1
    /\ err = "ValueError"
    /\ ret = << >>

\* The first and the last line of every axis lie at the absolute bounds
\* of the configuration, up to the tolerance of the comparisons.
SpansAbsoluteBounds(ml_all) ==
    \A dim \in Dims :
        /\ ml_all[dim] # << >>
        /\ fp_equalp(ml_all[dim][1], cfg.simulation_bounds[dim + 1][1])
        /\ fp_equalp(ml_all[dim][Len(ml_all[dim])],
                     cfg.simulation_bounds[dim + 1][2])

\* C17: with absolute simulation_bounds the size of the mesh is the
\* configured one: _trim_air_mesh removes no line, and when a build
\* returns without an exception the first line of every axis is at the
\* configured lower bound and the last at the configured upper bound, up
\* to tolerance, whatever the cells of expansion configured.
C17_AbsoluteBoundsEnforced ==
    [][cfg.simulation_bounds # << >>
          => /\ pc.at = "trim" => mesh_lines' = mesh_lines
             /\ (pc'.at = "idle" /\ hist'.fresh /\ ~hist.fresh)
                    => SpansAbsoluteBounds(mesh_lines')]_vars

\* C20: the state of a build does not outlive it.  When generate_mesh
\* has returned, the bounded types, the fixed lines, the metal bounds and
\* the meshed ranges of the build are gone from the Mesh on every axis, so
\* that a following build starts without them; fixed lines the user has
\* registered by add_fixed_line are not meant.
C20_BuildStateDiscarded ==
    BuildDone
        => \A dim \in Dims :
               /\ bounded_types[dim] = << >>
               /\ metal_bounds[dim] = << >>
               /\ ranges_meshed[dim] = << >>
               /\ hist.asked \/ fixed_lines[dim] = << >>

\* The ranges of the first k bounded types of a dimension in the order of
\* processing.
Processed(dim, k) ==
    [j \in 1..k |-> << size_ordered_bounded_types[dim][j].lower_bound,
                       size_ordered_bounded_types[dim][j].upper_bound >>]

\* The order of processing of a dimension is the order of bounded_types
\* sorted by size, bounded types of one size in the order they have there.
SizeOrdered(dim) ==
    LET sorted_types == size_ordered_bounded_types[dim]
        Place(btype) == CHOOSE k \in 1..Len(bounded_types[dim]) :
                            bounded_types[dim][k] = btype
    IN /\ Len(sorted_types) = Len(bounded_types[dim])
       /\ Elems(sorted_types) = Elems(bounded_types[dim])
       /\ \A a, b \in 1..Len(sorted_types) :
              a < b => \/ size(sorted_types[a]) < size(sorted_types[b])
                       \/ /\ size(sorted_types[a]) = size(sorted_types[b])
                          /\ Place(sorted_types[a]) < Place(sorted_types[b])

\* A bounded type of positive size next to btype that is reported as
\* meshed is one of the first k - 1 in the order of processing.
NeighboursMeshedBefore(dim, k, btype) ==
    LET before == {size_ordered_bounded_types[dim][j] : j \in 1..(k - 1)}
    IN /\ _type_above_meshed(dim, btype.upper_bound)
              => \E n \in before : /\ n.lower_bound = btype.upper_bound
                                    /\ size(n) # 0
       /\ _type_below_meshed(dim, btype.lower_bound)
              => \E n \in before : /\ n.upper_bound = btype.lower_bound
                                    /\ size(n) # 0

\* C21: the bounded types of an axis are meshed in the order of their size,
\* equal sizes in the order of their position; while the k-th is meshed
\* ranges_meshed holds the ranges of the k - 1 meshed before it, in that
\* order, and nothing else, so that a neighbour of positive size counts as
\* meshed only when it was processed earlier; when the loop has ended
\* ranges_meshed holds the range of every bounded type.
C21_MeshedInSizeOrder ==
    /\ pc.at = "gen"
           => /\ SizeOrdered(pc.dim)
              /\ ranges_meshed[pc.dim] = Processed(pc.dim, pc.i - 1)
              /\ NeighboursMeshedBefore(pc.dim, pc.i,
                     size_ordered_bounded_types[pc.dim][pc.i])
    /\ pc.at = "trim"
           => \A dim \in Dims :
                  ranges_meshed[dim] =
                      Processed(dim, Len(size_ordered_bounded_types[dim]))

\* The bounded type being meshed by the next step of the running build.
Current == size_ordered_bounded_types[pc.dim][pc.i]

\* The bounded types of positive size that end, or start, at a boundary.
NeighbourBelow(dim, lower) ==
    {n \in Elems(bounded_types[dim]) : n.upper_bound = lower /\ size(n) # 0}

NeighbourAbove(dim, upper) ==
    {n \in Elems(bounded_types[dim]) : n.lower_bound = upper /\ size(n) # 0}

\* A boundary is a metal bound that the thirds rule may move.
Movable(dim, pos) == _is_metal_bound(dim, pos) /\ ~_is_fixed_line(dim, pos)

\* The boundary spacing for a neighbour of type ntype with the nearest line
\* beyond the boundary at the distance gap: factor 1 off a movable metal
\* bound, 3 for the types in threes, 3/2 for the others.
FactorSpacing(dim, pos, gap, ntype, res_spacing, threes) ==
    IF ~Movable(dim, pos) THEN Min2(res_spacing, gap)
    ELSE IF ntype \in threes THEN Min2(res_spacing, 3 * gap)
    ELSE Min2(res_spacing, (3 * gap) \div 2)

\* The spacing from the resolution of the bounded type alone.
ResSpacing(btype) ==
    Min2(IF btype.prop_type = "metal" THEN cfg.metal_res ELSE cfg.nonmetal_res,
         _min_spacing(size(btype)))

\* The boundaries of the bounded type being meshed whose neighbour of
\* positive size is already meshed with a line beyond the boundary, a line
\* being there when Exists holds of what _line_below or _line_above
\* returns: the side, the boundary, the distance to that line and the type
\* of the neighbour.
SidesWith(Exists(_)) ==
    LET ml == mesh_lines[pc.dim]
        lower == Current.lower_bound
        upper == Current.upper_bound
        line_below == _line_below(ml, lower)[2]
        line_above == _line_above(ml, upper)[2]
    IN {[side |-> "lower", pos |-> lower, gap |-> lower - line_below,
         type |-> n.prop_type] :
            n \in {x \in NeighbourBelow(pc.dim, lower) :
                      /\ Exists(line_below)
                      /\ _pos_meshed(pc.dim, get_midpoint(x))}}
       \cup
       {[side |-> "upper", pos |-> upper, gap |-> line_above - upper,
         type |-> n.prop_type] :
            n \in {x \in NeighbourAbove(pc.dim, upper) :
                      /\ Exists(line_above)
                      /\ _pos_meshed(pc.dim, get_midpoint(x))}}

\* The line beyond the boundary is at a coordinate other than 0 (a line at
\* the coordinate 0 is the case of C28).
MeshedSides == SidesWith(Truthy)

IsLine(x) == x # None

\* The line beyond the boundary is at any coordinate.
MeshedSidesAll == SidesWith(IsLine)

\* The spacing the code takes at a boundary of the bounded type being
\* meshed.
BoundarySpacing(b) ==
    LET ml == mesh_lines[pc.dim]
        is_metal == Current.prop_type = "metal"
    IN IF b.side = "lower"
       THEN _lower_spacing(pc.dim, b.pos,
                _line_below(ml, b.pos)[2], size(Current), is_metal)
       ELSE _upper_spacing(pc.dim, b.pos,
                _line_above(ml, b.pos)[2], size(Current), is_metal)

FirstPass ==
    LET ml == mesh_lines[pc.dim]
        is_metal == Current.prop_type = "metal"
    IN _gen_lines_in_bounds(Current.lower_bound, Current.upper_bound,
           _lower_spacing(pc.dim, Current.lower_bound,
               _line_below(ml, Current.lower_bound)[2], size(Current),
               is_metal),
           _upper_spacing(pc.dim, Current.upper_bound,
               _line_above(ml, Current.upper_bound)[2], size(Current),
               is_metal),
           IF is_metal THEN cfg.metal_res ELSE cfg.nonmetal_res, pc.dim)

\* The lines handed to _add_lines_to_mesh for the bounded type being meshed.
FinalPass ==
    GenLines(pc.dim, Current.lower_bound, Current.upper_bound,
             _line_below(mesh_lines[pc.dim], Current.lower_bound)[2],
             _line_above(mesh_lines[pc.dim], Current.upper_bound)[2],
             Current.prop_type = "metal")

\* A bound stays where it is: it is the bound of the simulation or a fixed
\* line.
Unshifted(dim, pos, sim_bound) ==
    fp_equalp(pos, sim_bound) \/ _is_fixed_line(dim, pos)

\* A neighbour of positive size (one of ns) is metal and already meshed.
MetalMeshed(dim, ns) ==
    \E n \in ns : n.prop_type = "metal" /\ _pos_meshed(dim, get_midpoint(n))

\* The bounds a metal bounded type is meshed within after the first pass.
ShiftedLower ==
    LET lower == Current.lower_bound
        first_spacing == FirstPass[2] - FirstPass[1]
    IN IF Unshifted(pc.dim, lower, sim_bounds[pc.dim][1]) THEN lower
       ELSE IF MetalMeshed(pc.dim, NeighbourBelow(pc.dim, lower))
       THEN lower + (2 * first_spacing) \div 3
       ELSE lower + first_spacing \div 3

ShiftedUpper ==
    LET upper == Current.upper_bound
        last_spacing == FirstPass[Len(FirstPass)]
                            - FirstPass[Len(FirstPass) - 1]
    IN IF Unshifted(pc.dim, upper, sim_bounds[pc.dim][2]) THEN upper
       ELSE IF MetalMeshed(pc.dim, NeighbourAbove(pc.dim, upper))
       THEN upper - (2 * last_spacing) \div 3
       ELSE upper - last_spacing \div 3

\* C23: the lines added for a metal bounded type of positive size go from
\* lower' to upper': lower moved up by a third of the first spacing of the
\* lines first generated over [lower, upper], by two thirds when the
\* neighbour below is metal and already meshed, and not at all when lower
\* is the lower bound of the simulation or a fixed line; the same for upper
\* with the last spacing.
C23_MetalSpan ==
    (pc.at = "gen" /\ size(Current) # 0 /\ Current.prop_type = "metal")
        => /\ FinalPass[1] = ShiftedLower
           /\ FinalPass[Len(FinalPass)] = ShiftedUpper

\* The metal bounds of a dimension the thirds rule keeps free of lines:
\* neither a fixed line nor a bound of the simulation.
MovableBounds(dim) ==
    {p \in Elems(metal_bounds[dim]) :
        /\ ~_is_fixed_line(dim, p)
        /\ ~fp_equalp(p, sim_bounds[dim][1])
        /\ ~fp_equalp(p, sim_bounds[dim][2])}

\* The lines of a list that lie on a position.  The thirds rule moves a
\* line by a third of a spacing, which the tolerance of the comparisons
\* (Tol units) does not resolve for the spacings of the set-ups, so a line
\* lies on a position when it has its coordinate.
LinesAt(ml, p) == {j \in 1..Len(ml) : ml[j] = p}

\* C24: when a build has returned, no mesh line of a dimension lies on a
\* metal bound of that dimension that is neither a fixed line nor a bound of
\* the simulation.
C24_NoLineOnMetalBound ==
    BuildDone
        => \A dim \in Dims : \A p \in MovableBounds(dim) :
               LinesAt(mesh_lines[dim], p) = {}

\* The cells of a list of lines that lie below, or above, a position.
CellsBelow(ml, pos) == {j \in 1..(Len(ml) - 1) : fp_lep(ml[j + 1], pos)}

CellsAbove(ml, pos) == {j \in 1..(Len(ml) - 1) : fp_gep(ml[j], pos)}

\* trimmed is ml without some of its first and some of its last lines.
OuterEndsRemoved(ml, trimmed) ==
    \E a \in 0..Len(ml) : \E b \in 0..(Len(ml) - a) :
        trimmed = SubSeq(ml, a + 1, Len(ml) - b)

\* The lines of ml between two positions are lines of trimmed.
InnerLinesKept(ml, trimmed, lowest, highest) ==
    \A j \in 1..Len(ml) :
        (fp_gep(ml[j], lowest) /\ fp_lep(ml[j], highest))
            => ml[j] \in Elems(trimmed)

\* _trim_air_mesh has run to its end without explicit bounds of the
\* simulation.
Trims ==
    /\ pc.at = "trim"
    /\ cfg.simulation_bounds = << >>
    /\ err' # "TypeError"

\* C25: without explicit bounds of the simulation, _trim_air_mesh removes
\* lines from the two ends of the list of a dimension only and none between
\* the lowest and the highest position that is not air; afterwards at most
\* expand_bounds[dim][side] cells (the count the code calls pml cells) lie
\* outside these positions on each side.
C25_TrimOuterAir ==
    [][Trims
         => \A dim \in Dims :
                /\ OuterEndsRemoved(mesh_lines[dim], mesh_lines'[dim])
                /\ InnerLinesKept(mesh_lines[dim], mesh_lines'[dim],
                       _lowest_nonair_pos(dim), _highest_nonair_pos(dim))
                /\ Cardinality(CellsBelow(mesh_lines'[dim],
                                          _lowest_nonair_pos(dim)))
                       <= cfg.expand_bounds[dim + 1][1]
                /\ Cardinality(CellsAbove(mesh_lines'[dim],
                                          _highest_nonair_pos(dim)))
                       <= cfg.expand_bounds[dim + 1][2]]_vars

\* The uniform spacing of the slab exceeds the cell just outside the slab
\* by the smoothness factor of the axis or more.
SlabMustShrink ==
    /\ pc.at = "smooth"
    /\ ~has_zero_dim(pc.boxes[pc.i + 1])
    /\ Cardinality(SmoothSlab) >= 2
    /\ BeyondSlab # {}
    /\ LimitCell > 0
    /\ SetMax(SmoothSlab) - SetMin(SmoothSlab)
           > LimitCell * (Cardinality(SmoothSlab) - 1)
    /\ (SetMax(SmoothSlab) - SetMin(SmoothSlab)) * FS
           >= cfg.smooth[(pc.i \div 2) + 1] * LimitCell
                  * (Cardinality(SmoothSlab) - 1)

\* The slab of num lines at the lower, or upper, end of the lines ml starts
\* at the outermost line anchor and has the spacing limit * smooth.
SlabRebuilt(ml, lower_side, num, anchor, limit, smooth) ==
    /\ Len(ml) >= num
    /\ \A k \in 1..num :
           IF lower_side
           THEN ml[k] = anchor + ((k - 1) * limit * smooth) \div FS
           ELSE ml[Len(ml) - num + k]
                    = anchor - ((num - k) * limit * smooth) \div FS

\* C26: when the PML smoothing comes to a slab whose uniform spacing exceeds
\* the cell just outside the slab by the smoothness factor of the axis or
\* more, the step leaves the slab with as many lines as before, spaced
\* limiting spacing times smoothness factor, starting at the outermost line
\* of the axis, which stays where it was.
C26_SlabClamped ==
    [][SlabMustShrink
          => SlabRebuilt(mesh_lines'[pc.i \div 2], pc.i % 2 = 0,
                    Cardinality(SmoothSlab),
                    IF pc.i % 2 = 0
                    THEN mesh_lines[pc.i \div 2][1]
                    ELSE mesh_lines[pc.i \div 2][Len(mesh_lines[pc.i \div 2])],
                    LimitCell, cfg.smooth[(pc.i \div 2) + 1])]_vars

\* The smoothing has just clamped a lower slab: its first line is where the
\* slab started, its lines are equally spaced up to the rounding of a
\* position, and it ends below the former end of the slab.
C26_Witness ==
    /\ pc.at = "smooth"
    /\ pc.i % 2 = 1
    /\ hist.smoothed
    /\ LET dim == (pc.i - 1) \div 2
           box == pc.boxes[pc.i]
           num == cfg.pml_cells[dim + 1][1] + 1
           ml == mesh_lines[dim]
       IN /\ ~has_zero_dim(box)
          /\ num >= 3
          /\ Len(ml) > num
          /\ ml[1] = box[1]
          /\ ml[num] < box[2]
          /\ \A k \in 2..(num - 1) :
                 Abs((ml[k + 1] - ml[k]) - (ml[k] - ml[k - 1])) <= 1

\* lines go from lower to upper exactly, in increasing order.
Spans(lines, lower, upper) ==
    /\ Len(lines) >= 2
    /\ lines[1] = lower
    /\ lines[Len(lines)] = upper
    /\ StrictlyIncreasing(lines)

C28_BoundAtAnyCoordinate ==
    (pc.at = "gen" /\ size(Current) # 0)
        => \A b \in MeshedSidesAll :
               BoundarySpacing(b)
                   <= (IF ~Movable(pc.dim, b.pos) THEN b.gap
                       ELSE IF b.type = "nonmetal" THEN (3 * b.gap) \div 2
                       ELSE 3 * b.gap)

\* sim_box(include_pml) is called on a Mesh whose every axis has more lines
\* than PML cells on either side.
SimBoxCalled(include_pml) ==
    /\ hist'.op = "sim_box"
    /\ hist'.ops = hist.ops + 1
    /\ call' = << "sim_box", include_pml >>
    /\ \A dim \in Dims :
           Len(mesh_lines[dim]) > cfg.pml_cells[dim + 1][1]
                                      + cfg.pml_cells[dim + 1][2]

\* C29: sim_box(include_pml=False) returns, on each axis, the line at the
\* index pml_lower as the lower and the line at the index -1 - pml_upper as
\* the upper corner, pml_lower and pml_upper being the PML cells of the two
\* sides of the axis; sim_box(include_pml=True) returns the first and the
\* last line.
C29_SimBoxCorners ==
    [][/\ SimBoxCalled(FALSE)
          => /\ err' = "none"
             /\ ret' = << [dim \in Dims |->
                             mesh_lines[dim][cfg.pml_cells[dim + 1][1] + 1]],
                          [dim \in Dims |->
                             mesh_lines[dim][Len(mesh_lines[dim])
                                             - cfg.pml_cells[dim + 1][2]]] >>
       /\ SimBoxCalled(TRUE)
          => /\ err' = "none"
             /\ ret' = << [dim \in Dims |-> mesh_lines[dim][1]],
                          [dim \in Dims |->
                             mesh_lines[dim][Len(mesh_lines[dim])]] >>]_vars

(***************************************************************************)
(* The functions of the GeometricSeriesSolver and the line generator,      *)
(* called on their own.  call is << name, arguments >> padded with 0 and   *)
(* ret the sequence of the numbers returned.  The functions on lists and   *)
(* on primitives are called with << name, arguments >> and return          *)
(* << result >>.                                                           *)
(***************************************************************************)
Nums == 2..7

Spacings == {20, 40, 60}

Dists == {10, 30, 60, 80, 100, 150, 160, 240, 400}

Factors == {12000, 15000}

MinLines == {0, 3, 5, 8}

Lowers == {0, -30}

\* Positions of the lists given to _remove_dups: some within tolerance of
\* each other, some not.
DupPositions == {0, 1, 2, 5, 9, 10}

MaxLen == 3

\* The sorted lists of at most MaxLen positions.
SortedLists ==
    {l \in UNION {[1..n -> DupPositions] : n \in 0..MaxLen} :
        \A i \in 1..(Len(l) - 1) : l[i] <= l[i + 1]}

\* The lists of fixed positions.
FixedLists ==
    {<< >>} \cup {<< a >> : a \in DupPositions}
    \cup {l \in DupPositions \X DupPositions : l[1] < l[2]}

\* Primitives given to _type_at_pos: extents on x from 0 that are equal,
\* close within the relative tolerance of np.isclose or apart, a sheet of
\* no extent, and a primitive that does not hold the first position.
TypePrims ==
    {Box(0, x1, 0, 0, 0, 0, ty) :
        x1 \in {0, 1999, 2000, 2002, 3000}, ty \in {"Metal", "Material"}}
    \cup {Box(3500, 4500, 0, 0, 0, 0, "Metal")}

TypePrimLists == UNION {[1..n -> TypePrims] : n \in 0..MaxLen}

TypePositions == {0, 10, 3200}

MeshVars == << prims, cfg, unique_index, structures,
               mesh_lines, fixed_lines, metal_bounds,
               ranges_meshed, sim_bounds, bounded_types,
               size_ordered_bounded_types, grid, calls, pc, err, hist >>

\* The calls made: every function on every combination of its inputs.
SolverCalls ==
    {<< "_factor_for_num", num, s, dist, 0, 0, 0 >> :
        num \in Nums, s \in Spacings, dist \in Dists}
    \cup {<< "_num_for_factor", factor, s, dist, 0, 0, 0 >> :
        factor \in Factors, s \in Spacings, dist \in Dists}
    \cup {c \in {<< "_geom_series", s, l, dist, min_num, factor, 0 >> :
                    s \in Spacings, l \in Spacings \cup {120}, dist \in Dists,
                    min_num \in MinLines, factor \in Factors} : c[2] < c[3]}
    \cup {<< "_lines_const_factor_in_bounds", lower, lower + dist, ls, us,
             min_lines, 15000 >> :
        lower \in Lowers, dist \in Dists, ls \in Spacings, us \in Spacings,
        min_lines \in MinLines}
    \cup {<< "_remove_dups", lst, fixed >> :
        lst \in SortedLists, fixed \in FixedLists}
    \cup {<< "_type_at_pos", ps, 0, pos >> :
        ps \in TypePrimLists, pos \in TypePositions}

\* No Mesh: a function is about to be called on its own.
SolverInit ==
    /\ prims = << >>
    /\ cfg = NoExpansion
    /\ call \in SolverCalls
    /\ ret = << >>
    /\ unique_index = [cls \in Classes |-> 0]
    /\ structures = << >>
    /\ mesh_lines = [d \in Dims |-> << >>]
    /\ fixed_lines = [d \in Dims |-> << >>]
    /\ metal_bounds = [d \in Dims |-> << >>]
    /\ ranges_meshed = [d \in Dims |-> << >>]
    /\ sim_bounds = [d \in Dims |-> << >>]
    /\ bounded_types = [d \in Dims |-> << >>]
    /\ size_ordered_bounded_types = [d \in Dims |-> << >>]
    /\ grid = [d \in Dims |-> << >>]
    /\ calls = << >>
    /\ pc = Idle
    /\ err = "none"
    /\ hist = [builds |-> 0]

Calling(name) == call[1] = name /\ ret = << >>

CallFactorForNum ==
    /\ Calling("_factor_for_num")
    /\ ret' = << _factor_for_num(call[2], call[3], call[4]) >>
    /\ UNCHANGED << call, MeshVars >>

\* ret is << factor, num, 1 for the RuntimeError >>
CallNumForFactor ==
    LET r == _num_for_factor(call[2], call[3], call[4])
    IN /\ Calling("_num_for_factor")
       /\ ret' = << r.factor, r.num, IF r.err THEN 1 ELSE 0 >>
       /\ UNCHANGED << call, MeshVars >>

\* ret is << factor, num >>
CallGeomSeries ==
    LET r == _geom_series(call[2], call[3], call[4], call[5], call[6])
    IN /\ Calling("_geom_series")
       /\ ret' = << r.factor, r.num >>
       /\ UNCHANGED << call, MeshVars >>

\* ret is the lines
CallLinesConstFactor ==
    /\ Calling("_lines_const_factor_in_bounds")
    /\ ret' = _lines_const_factor_in_bounds(call[2], call[3], call[4],
                  call[5], call[6], call[7])
    /\ UNCHANGED << call, MeshVars >>

\* ret is << the list returned >>
CallRemoveDups ==
    /\ Calling("_remove_dups")
    /\ ret' = << _remove_dups(call[2], Elems(call[3])) >>
    /\ UNCHANGED << call, MeshVars >>

\* ret is << the type returned >>
CallTypeAtPos ==
    /\ Calling("_type_at_pos")
    /\ ret' = << _type_at_pos(call[2], call[3], call[4]) >>
    /\ UNCHANGED << call, MeshVars >>

SolverNext ==
    \/ CallRemoveDups
    \/ CallTypeAtPos
    \/ CallFactorForNum
    \/ CallNumForFactor
    \/ CallGeomSeries
    \/ CallLinesConstFactor

SolverSpec == SolverInit /\ [][SolverNext]_vars

(***************************************************************************)
(* Properties of the solver and of the line generator.                     *)
(***************************************************************************)
\* The function has returned.
Called(name) == call # << >> /\ call[1] = name /\ ret # << >>

\* The equal-spacing branch of _lines_const_factor_in_bounds was taken.
UniformCall ==
    /\ Called("_lines_const_factor_in_bounds")
    /\ call[4] = call[5]

Spacing(lines, j) == lines[j] - lines[j - 1]

C10_RoundTrip ==
    /\ (Called("_num_for_factor") /\ ret[3] = 0) =>
           fp_equalp(_geom_dist(ret[1], ret[2], call[3]), call[4])
    /\ (Called("_factor_for_num") /\ ret[1] < FMax) =>
           fp_equalp(_geom_dist(ret[1], call[2], call[3]), call[4])


\* C18: _remove_dups of a sorted list drops the position that is not fixed
\* whenever a fixed one and one that is not are within tolerance, and
\* keeps every fixed position of the list: two distinct fixed positions
\* within tolerance of each other are both in the result.
C18_FixedSurvive ==
    Called("_remove_dups")
        => /\ \A i, j \in 1..Len(call[2]) :
                  (/\ call[2][i] \in Elems(call[3])
                   /\ call[2][j] \notin Elems(call[3])
                   /\ fp_equalp(call[2][i], call[2][j]))
                      => call[2][j] \notin Elems(ret[1])
           /\ \A i \in 1..Len(call[2]) :
                  call[2][i] \in Elems(call[3])
                      => call[2][i] \in Elems(ret[1])

\* The indices of the primitives whose extent on dim holds pos.
Covering(ps, dim, pos) ==
    {i \in 1..Len(ps) : ps[i].b[dim][1] <= pos /\ pos <= ps[i].b[dim][2]}

Extent(prim, dim) == prim.b[dim][2] - prim.b[dim][1]

\* The type the rule gives: none without a covering primitive, metal with
\* a covering conductor whose extent equals the smallest covering extent
\* within tolerance, and else the type of the covering primitive of
\* smallest extent, which is no conductor then.
TypeByRule(ps, dim, pos) ==
    LET cover == Covering(ps, dim, pos)
        smallest == SetMin({Extent(ps[i], dim) : i \in cover})
    IN IF cover = {} THEN "None"
       ELSE IF \E i \in cover :
                   /\ _prim_metalp(ps[i])
                   /\ isclose(Extent(ps[i], dim), smallest)
       THEN "metal"
       ELSE "nonmetal"

\* The lists that hold the primitives of ps in another order.
Reorderings(ps) ==
    {[i \in 1..Len(ps) |-> ps[f[i]]] :
        f \in {g \in [1..Len(ps) -> 1..Len(ps)] :
                  \A i, j \in 1..Len(ps) : g[i] = g[j] => i = j}}

\* C19: _type_at_pos(prims, dim, pos) returns the type of the rule, and
\* the same for every order of the list of primitives.
C19_TypeAtPos ==
    Called("_type_at_pos")
        => /\ ret[1] = TypeByRule(call[2], call[3], call[4])
           /\ \A qs \in Reorderings(call[2]) :
                  _type_at_pos(qs, call[3], call[4]) = ret[1]

(***************************************************************************)
(* Structure objects made and constructed in any order.  hist.constructs   *)
(* lists the construct() calls: the object, its class and the names of the *)
(* properties the call added.                                              *)
(***************************************************************************)
\* The classes and the gap arguments objects are made with (Via has no gap).
StructureArgs ==
    {a \in (Classes \ {"Structure"}) \X BOOLEAN : a[1] = "Via" => ~a[2]}

StructureInit ==
    /\ prims = << >>
    /\ cfg = NoExpansion
    /\ call = << >>
    /\ ret = << >>
    /\ unique_index = [cls \in Classes |-> 0]
    /\ structures = << >>
    /\ mesh_lines = [d \in Dims |-> << >>]
    /\ fixed_lines = [d \in Dims |-> << >>]
    /\ metal_bounds = [d \in Dims |-> << >>]
    /\ ranges_meshed = [d \in Dims |-> << >>]
    /\ sim_bounds = [d \in Dims |-> << >>]
    /\ bounded_types = [d \in Dims |-> << >>]
    /\ size_ordered_bounded_types = [d \in Dims |-> << >>]
    /\ grid = [d \in Dims |-> << >>]
    /\ calls = << >>
    /\ pc = Idle
    /\ err = "none"
    /\ hist = [builds |-> 0, constructs |-> << >>]

MeshUnused == << prims, cfg, mesh_lines, fixed_lines, metal_bounds,
                 ranges_meshed, sim_bounds, bounded_types,
                 size_ordered_bounded_types, grid, pc, err, ret >>

\* hist after the construct() of the object at index inst.
Constructs(inst, cls, names) ==
    [hist EXCEPT !.constructs =
        Append(@, [inst |-> inst, cls |-> cls, names |-> names])]

\* cls(..., position=None): the object is made and not constructed.
NewStructure(cls, gap) ==
    LET made == __init__(cls, gap, unique_index)
    IN /\ Len(structures) < MaxStructures
       /\ structures' = Append(structures, made.self)
       /\ unique_index' = made.unique_index
       /\ call' = << "__init__", cls, gap, None >>
       /\ UNCHANGED << calls, hist, MeshUnused >>

\* cls(..., position): __init__ ends with construct(position).
NewStructureAt(cls, gap) ==
    LET made == __init__(cls, gap, unique_index)
        built == construct(made.self, made.unique_index)
    IN /\ Len(structures) < MaxStructures
       /\ Len(hist.constructs) < MaxConstructs
       /\ structures' = Append(structures, built.self)
       /\ unique_index' = built.unique_index
       /\ calls' = calls \o built.names
       /\ hist' = Constructs(Len(structures) + 1, cls, built.names)
       /\ call' = << "__init__", cls, gap, 0 >>
       /\ UNCHANGED MeshUnused

\* structures[inst].construct(position)
Construct(inst) ==
    LET built == construct(structures[inst], unique_index)
    IN /\ Len(hist.constructs) < MaxConstructs
       /\ structures' = [structures EXCEPT ![inst] = built.self]
       /\ unique_index' = built.unique_index
       /\ calls' = calls \o built.names
       /\ hist' = Constructs(inst, structures[inst].cls, built.names)
       /\ call' = << "construct", inst >>
       /\ UNCHANGED MeshUnused

StructureNext ==
    \/ \E a \in StructureArgs : NewStructure(a[1], a[2])
    \/ \E a \in StructureArgs : NewStructureAt(a[1], a[2])
    \/ \E inst \in 1..Len(structures) : Construct(inst)

StructureSpec == StructureInit /\ [][StructureNext]_vars

\* The construct() calls of two objects of one class, of the classes in of.
SameClassConstructs(of) ==
    {p \in (1..Len(hist.constructs)) \X (1..Len(hist.constructs)) :
        /\ hist.constructs[p[1]].inst # hist.constructs[p[2]].inst
        /\ hist.constructs[p[1]].cls = hist.constructs[p[2]].cls
        /\ hist.constructs[p[1]].cls \in of}

DifferentNames(of) ==
    \A p \in SameClassConstructs(of) :
        Elems(hist.constructs[p[1]].names)
            \cap Elems(hist.constructs[p[2]].names) = {}

\* A step moves no counter but that of the class of the object it makes or
\* constructs.
CountersApart ==
    \A cls \in Classes :
        unique_index'[cls] # unique_index[cls]
            => \/ call'[1] = "__init__" /\ call'[2] = cls
               \/ call'[1] = "construct" /\ structures[call'[2]].cls = cls

\* C30: the construct() calls of two objects of one class that names its
\* properties by unique_index (Via, Taper, Miter, SMDPassive) give
\* different names to their properties, in whatever order objects of these
\* classes are made and constructed; and the counters of the classes do
\* not affect each other.
C30_UniqueNames == [][DifferentNames(Classes)' /\ CountersApart]_vars

=============================================================================
